---- MODULE Spec2Model ----
(***************************************************************************)
(* Transfer Guru API (backend/main.py): ingestion of a transaction sheet,  *)
(* the operation filter, the two pivot builders, the summary, and the      *)
(* request handlers around the process-wide DATA_STORE slot.               *)
(*                                                                         *)
(* Representation.                                                         *)
(*  - A Python str is the sequence of its code points ("A" is <<65>>), so  *)
(*    lower(), strip(), startswith(), replace(), float() and the ordering  *)
(*    of strings are computed character by character.                      *)
(*  - A Python/openpyxl value of dynamic type is a record tagged by t:     *)
(*    None, str, int, float, bool, datetime, date, time, timedelta (what   *)
(*    openpyxl gives for a cell with data_only=True).                      *)
(*  - A float is an IEEE 754 binary64 held exactly: sign, significand and  *)
(*    binary exponent, or inf, or nan.  float(), str(), round() and the    *)
(*    sums are computed bit for bit as CPython, numpy and pandas do.       *)
(*  - A DataFrame is [t, columns, rows]: pd.DataFrame([]) has no columns,  *)
(*    a frame built from at least one dict has the nine columns, and a     *)
(*    boolean-mask selection keeps the columns of the frame it selects in. *)
(***************************************************************************)
EXTENDS Integers, Sequences, FiniteSets, TLC

VARIABLES DATA_STORE, response, everLoaded, call, result

vars == <<DATA_STORE, response, everLoaded, call, result>>

(***************************************************************************)
(* Bounds of the model.                                                    *)
(***************************************************************************)
\* longest text enumerated exhaustively for parse_european_number
MaxTextLen == 3
\* rows of a sheet handed to load_xlsx_data on its own
MaxSheetRows == 2
\* rows of a sheet uploaded to the service
MaxUploadRows == 2
\* records of a dataset handed to filter_by_operation_type on its own
MaxFilterRows == 2
\* records of a filtered frame handed to the pivot builders on their own
MaxPivotRows == 4

(***************************************************************************)
(* Python values.                                                          *)
(***************************************************************************)
None == [t |-> "None"]

PyStr(s) == [t |-> "str", s |-> s]

\* an int: (-1)^neg * m, of any size; m is a natural number as defined below, and 0 has
\* neg = FALSE
PyLong(neg, m) == [t |-> "int", neg |-> neg, m |-> m]

PyBool(b) == [t |-> "bool", v |-> b]

\* datetime.datetime(year, month, day, hour, minute, second, microsecond), naive
PyDateTime(year, month, day, hour, minute, second, microsecond) ==
    [t |-> "datetime", year |-> year, month |-> month, day |-> day, hour |-> hour,
     minute |-> minute, second |-> second, microsecond |-> microsecond]

\* datetime.date(year, month, day)
PyDate(year, month, day) == [t |-> "date", year |-> year, month |-> month, day |-> day]

\* datetime.time(hour, minute, second, microsecond), naive
PyTime(hour, minute, second, microsecond) ==
    [t |-> "time", hour |-> hour, minute |-> minute, second |-> second,
     microsecond |-> microsecond]

\* datetime.timedelta, normalised: 0 <= seconds < 86400, 0 <= microseconds < 10^6
PyTimeDelta(days, seconds, microseconds) ==
    [t |-> "timedelta", days |-> days, seconds |-> seconds, microseconds |-> microseconds]

\* raise e: a call that raises gives [ok |-> FALSE, error |-> e]
Raise(e) == [ok |-> FALSE, error |-> e]

\* return x, from a call that may raise
Returns(x) == [ok |-> TRUE, value |-> x]

\* return df, a frame, from a call that may raise
Return(df) == [ok |-> TRUE, df |-> df]

(***************************************************************************)
(* str methods, on code points.                                            *)
(***************************************************************************)
\* str.isspace for one character: \t \n \v \f \r, FS GS RS US, space, and the Unicode
\* white space above ASCII
IsSpace(c) ==
    c \in (9..13) \cup (28..32) \cup {133, 160, 5760} \cup (8192..8202)
          \cup {8232, 8233, 8239, 8287, 12288}

IsDigit(c) == c \in 48..57

\* s.startswith(p)
startswith(s, p) == Len(s) >= Len(p) /\ SubSeq(s, 1, Len(p)) = p

\* s.endswith(p)
endswith(s, p) == Len(s) >= Len(p) /\ SubSeq(s, Len(s) - Len(p) + 1, Len(s)) = p

\* s.replace(a, b) for single characters a, b
replace(s, a, b) == [i \in 1..Len(s) |-> IF s[i] = a THEN b ELSE s[i]]

\* s.strip(): drop leading and trailing whitespace
strip(s) ==
    LET keep == {i \in 1..Len(s) : ~IsSpace(s[i])}
    IN  IF keep = {} THEN <<>>
        ELSE LET lo == CHOOSE i \in keep : \A j \in keep : i <= j
                 hi == CHOOSE i \in keep : \A j \in keep : j <= i
             IN  SubSeq(s, lo, hi)

\* a < b for str: lexicographic on code points
RECURSIVE StrLess(_, _)
StrLess(a, b) ==
    IF b = <<>> THEN FALSE
    ELSE IF a = <<>> THEN TRUE
    ELSE IF a[1] # b[1] THEN a[1] < b[1]
    ELSE StrLess(Tail(a), Tail(b))

(***************************************************************************)
(* str.lower() and str.upper(): the case mappings of Unicode 14, as        *)
(* CPython applies them (a text of ASCII characters maps A-Z and a-z only; *)
(* else each character takes its full mapping, and a capital sigma its     *)
(* final form at the end of a word).                                       *)
(***************************************************************************)
\* the characters with a one-character lowercase mapping, in runs <<first, last, step,
\* offset>>: first, first + step, ..., last each map to themselves plus offset
LowerRuns ==
    <<<<65, 90, 1, 32>>, <<192, 214, 1, 32>>, <<216, 222, 1, 32>>, <<256, 302, 2, 1>>,
     <<306, 310, 2, 1>>, <<313, 327, 2, 1>>, <<330, 374, 2, 1>>, <<376, 376, 1, -121>>,
     <<377, 381, 2, 1>>, <<385, 385, 1, 210>>, <<386, 388, 2, 1>>, <<390, 390, 1, 206>>,
     <<391, 391, 1, 1>>, <<393, 394, 1, 205>>, <<395, 395, 1, 1>>, <<398, 398, 1, 79>>,
     <<399, 399, 1, 202>>, <<400, 400, 1, 203>>, <<401, 401, 1, 1>>, <<403, 403, 1, 205>>,
     <<404, 404, 1, 207>>, <<406, 406, 1, 211>>, <<407, 407, 1, 209>>, <<408, 408, 1, 1>>,
     <<412, 412, 1, 211>>, <<413, 413, 1, 213>>, <<415, 415, 1, 214>>, <<416, 420, 2, 1>>,
     <<422, 422, 1, 218>>, <<423, 423, 1, 1>>, <<425, 425, 1, 218>>, <<428, 428, 1, 1>>,
     <<430, 430, 1, 218>>, <<431, 431, 1, 1>>, <<433, 434, 1, 217>>, <<435, 437, 2, 1>>,
     <<439, 439, 1, 219>>, <<440, 440, 1, 1>>, <<444, 444, 1, 1>>, <<452, 452, 1, 2>>,
     <<453, 453, 1, 1>>, <<455, 455, 1, 2>>, <<456, 456, 1, 1>>, <<458, 458, 1, 2>>,
     <<459, 475, 2, 1>>, <<478, 494, 2, 1>>, <<497, 497, 1, 2>>, <<498, 500, 2, 1>>,
     <<502, 502, 1, -97>>, <<503, 503, 1, -56>>, <<504, 542, 2, 1>>, <<544, 544, 1, -130>>,
     <<546, 562, 2, 1>>, <<570, 570, 1, 10795>>, <<571, 571, 1, 1>>, <<573, 573, 1, -163>>,
     <<574, 574, 1, 10792>>, <<577, 577, 1, 1>>, <<579, 579, 1, -195>>, <<580, 580, 1, 69>>,
     <<581, 581, 1, 71>>, <<582, 590, 2, 1>>, <<880, 882, 2, 1>>, <<886, 886, 1, 1>>,
     <<895, 895, 1, 116>>, <<902, 902, 1, 38>>, <<904, 906, 1, 37>>, <<908, 908, 1, 64>>,
     <<910, 911, 1, 63>>, <<913, 929, 1, 32>>, <<931, 939, 1, 32>>, <<975, 975, 1, 8>>,
     <<984, 1006, 2, 1>>, <<1012, 1012, 1, -60>>, <<1015, 1015, 1, 1>>, <<1017, 1017, 1, -7>>,
     <<1018, 1018, 1, 1>>, <<1021, 1023, 1, -130>>, <<1024, 1039, 1, 80>>, <<1040, 1071, 1, 32>>,
     <<1120, 1152, 2, 1>>, <<1162, 1214, 2, 1>>, <<1216, 1216, 1, 15>>, <<1217, 1229, 2, 1>>,
     <<1232, 1326, 2, 1>>, <<1329, 1366, 1, 48>>, <<4256, 4293, 1, 7264>>,
     <<4295, 4295, 1, 7264>>, <<4301, 4301, 1, 7264>>, <<5024, 5103, 1, 38864>>,
     <<5104, 5109, 1, 8>>, <<7312, 7354, 1, -3008>>, <<7357, 7359, 1, -3008>>,
     <<7680, 7828, 2, 1>>, <<7838, 7838, 1, -7615>>, <<7840, 7934, 2, 1>>, <<7944, 7951, 1, -8>>,
     <<7960, 7965, 1, -8>>, <<7976, 7983, 1, -8>>, <<7992, 7999, 1, -8>>, <<8008, 8013, 1, -8>>,
     <<8025, 8031, 2, -8>>, <<8040, 8047, 1, -8>>, <<8072, 8079, 1, -8>>, <<8088, 8095, 1, -8>>,
     <<8104, 8111, 1, -8>>, <<8120, 8121, 1, -8>>, <<8122, 8123, 1, -74>>, <<8124, 8124, 1, -9>>,
     <<8136, 8139, 1, -86>>, <<8140, 8140, 1, -9>>, <<8152, 8153, 1, -8>>,
     <<8154, 8155, 1, -100>>, <<8168, 8169, 1, -8>>, <<8170, 8171, 1, -112>>,
     <<8172, 8172, 1, -7>>, <<8184, 8185, 1, -128>>, <<8186, 8187, 1, -126>>,
     <<8188, 8188, 1, -9>>, <<8486, 8486, 1, -7517>>, <<8490, 8490, 1, -8383>>,
     <<8491, 8491, 1, -8262>>, <<8498, 8498, 1, 28>>, <<8544, 8559, 1, 16>>, <<8579, 8579, 1, 1>>,
     <<9398, 9423, 1, 26>>, <<11264, 11311, 1, 48>>, <<11360, 11360, 1, 1>>,
     <<11362, 11362, 1, -10743>>, <<11363, 11363, 1, -3814>>, <<11364, 11364, 1, -10727>>,
     <<11367, 11371, 2, 1>>, <<11373, 11373, 1, -10780>>, <<11374, 11374, 1, -10749>>,
     <<11375, 11375, 1, -10783>>, <<11376, 11376, 1, -10782>>, <<11378, 11378, 1, 1>>,
     <<11381, 11381, 1, 1>>, <<11390, 11391, 1, -10815>>, <<11392, 11490, 2, 1>>,
     <<11499, 11501, 2, 1>>, <<11506, 11506, 1, 1>>, <<42560, 42604, 2, 1>>,
     <<42624, 42650, 2, 1>>, <<42786, 42798, 2, 1>>, <<42802, 42862, 2, 1>>,
     <<42873, 42875, 2, 1>>, <<42877, 42877, 1, -35332>>, <<42878, 42886, 2, 1>>,
     <<42891, 42891, 1, 1>>, <<42893, 42893, 1, -42280>>, <<42896, 42898, 2, 1>>,
     <<42902, 42920, 2, 1>>, <<42922, 42922, 1, -42308>>, <<42923, 42923, 1, -42319>>,
     <<42924, 42924, 1, -42315>>, <<42925, 42925, 1, -42305>>, <<42926, 42926, 1, -42308>>,
     <<42928, 42928, 1, -42258>>, <<42929, 42929, 1, -42282>>, <<42930, 42930, 1, -42261>>,
     <<42931, 42931, 1, 928>>, <<42932, 42946, 2, 1>>, <<42948, 42948, 1, -48>>,
     <<42949, 42949, 1, -42307>>, <<42950, 42950, 1, -35384>>, <<42951, 42953, 2, 1>>,
     <<42960, 42960, 1, 1>>, <<42966, 42968, 2, 1>>, <<42997, 42997, 1, 1>>,
     <<65313, 65338, 1, 32>>, <<66560, 66599, 1, 40>>, <<66736, 66771, 1, 40>>,
     <<66928, 66964, 2, 39>>, <<66929, 66937, 2, 39>>, <<66941, 66953, 2, 39>>,
     <<66957, 66961, 2, 39>>, <<66965, 66965, 1, 39>>, <<68736, 68786, 1, 64>>,
     <<71840, 71871, 1, 32>>, <<93760, 93791, 1, 32>>, <<125184, 125217, 1, 34>>>>

\* the same for the one-character uppercase mappings
UpperRuns ==
    <<<<97, 122, 1, -32>>, <<181, 181, 1, 743>>, <<224, 246, 1, -32>>, <<248, 254, 1, -32>>,
     <<255, 255, 1, 121>>, <<257, 303, 2, -1>>, <<305, 305, 1, -232>>, <<307, 311, 2, -1>>,
     <<314, 328, 2, -1>>, <<331, 375, 2, -1>>, <<378, 382, 2, -1>>, <<383, 383, 1, -300>>,
     <<384, 384, 1, 195>>, <<387, 389, 2, -1>>, <<392, 392, 1, -1>>, <<396, 396, 1, -1>>,
     <<402, 402, 1, -1>>, <<405, 405, 1, 97>>, <<409, 409, 1, -1>>, <<410, 410, 1, 163>>,
     <<414, 414, 1, 130>>, <<417, 421, 2, -1>>, <<424, 424, 1, -1>>, <<429, 429, 1, -1>>,
     <<432, 432, 1, -1>>, <<436, 438, 2, -1>>, <<441, 441, 1, -1>>, <<445, 445, 1, -1>>,
     <<447, 447, 1, 56>>, <<453, 453, 1, -1>>, <<454, 454, 1, -2>>, <<456, 456, 1, -1>>,
     <<457, 457, 1, -2>>, <<459, 459, 1, -1>>, <<460, 460, 1, -2>>, <<462, 476, 2, -1>>,
     <<477, 477, 1, -79>>, <<479, 495, 2, -1>>, <<498, 498, 1, -1>>, <<499, 499, 1, -2>>,
     <<501, 501, 1, -1>>, <<505, 543, 2, -1>>, <<547, 563, 2, -1>>, <<572, 572, 1, -1>>,
     <<575, 576, 1, 10815>>, <<578, 578, 1, -1>>, <<583, 591, 2, -1>>, <<592, 592, 1, 10783>>,
     <<593, 593, 1, 10780>>, <<594, 594, 1, 10782>>, <<595, 595, 1, -210>>, <<596, 596, 1, -206>>,
     <<598, 599, 1, -205>>, <<601, 601, 1, -202>>, <<603, 603, 1, -203>>, <<604, 604, 1, 42319>>,
     <<608, 608, 1, -205>>, <<609, 609, 1, 42315>>, <<611, 611, 1, -207>>, <<613, 613, 1, 42280>>,
     <<614, 614, 1, 42308>>, <<616, 616, 1, -209>>, <<617, 617, 1, -211>>, <<618, 618, 1, 42308>>,
     <<619, 619, 1, 10743>>, <<620, 620, 1, 42305>>, <<623, 623, 1, -211>>,
     <<625, 625, 1, 10749>>, <<626, 626, 1, -213>>, <<629, 629, 1, -214>>, <<637, 637, 1, 10727>>,
     <<640, 640, 1, -218>>, <<642, 642, 1, 42307>>, <<643, 643, 1, -218>>, <<647, 647, 1, 42282>>,
     <<648, 648, 1, -218>>, <<649, 649, 1, -69>>, <<650, 651, 1, -217>>, <<652, 652, 1, -71>>,
     <<658, 658, 1, -219>>, <<669, 669, 1, 42261>>, <<670, 670, 1, 42258>>, <<837, 837, 1, 84>>,
     <<881, 883, 2, -1>>, <<887, 887, 1, -1>>, <<891, 893, 1, 130>>, <<940, 940, 1, -38>>,
     <<941, 943, 1, -37>>, <<945, 961, 1, -32>>, <<962, 962, 1, -31>>, <<963, 971, 1, -32>>,
     <<972, 972, 1, -64>>, <<973, 974, 1, -63>>, <<976, 976, 1, -62>>, <<977, 977, 1, -57>>,
     <<981, 981, 1, -47>>, <<982, 982, 1, -54>>, <<983, 983, 1, -8>>, <<985, 1007, 2, -1>>,
     <<1008, 1008, 1, -86>>, <<1009, 1009, 1, -80>>, <<1010, 1010, 1, 7>>,
     <<1011, 1011, 1, -116>>, <<1013, 1013, 1, -96>>, <<1016, 1016, 1, -1>>,
     <<1019, 1019, 1, -1>>, <<1072, 1103, 1, -32>>, <<1104, 1119, 1, -80>>, <<1121, 1153, 2, -1>>,
     <<1163, 1215, 2, -1>>, <<1218, 1230, 2, -1>>, <<1231, 1231, 1, -15>>, <<1233, 1327, 2, -1>>,
     <<1377, 1414, 1, -48>>, <<4304, 4346, 1, 3008>>, <<4349, 4351, 1, 3008>>,
     <<5112, 5117, 1, -8>>, <<7296, 7296, 1, -6254>>, <<7297, 7297, 1, -6253>>,
     <<7298, 7298, 1, -6244>>, <<7299, 7300, 1, -6242>>, <<7301, 7301, 1, -6243>>,
     <<7302, 7302, 1, -6236>>, <<7303, 7303, 1, -6181>>, <<7304, 7304, 1, 35266>>,
     <<7545, 7545, 1, 35332>>, <<7549, 7549, 1, 3814>>, <<7566, 7566, 1, 35384>>,
     <<7681, 7829, 2, -1>>, <<7835, 7835, 1, -59>>, <<7841, 7935, 2, -1>>, <<7936, 7943, 1, 8>>,
     <<7952, 7957, 1, 8>>, <<7968, 7975, 1, 8>>, <<7984, 7991, 1, 8>>, <<8000, 8005, 1, 8>>,
     <<8017, 8023, 2, 8>>, <<8032, 8039, 1, 8>>, <<8048, 8049, 1, 74>>, <<8050, 8053, 1, 86>>,
     <<8054, 8055, 1, 100>>, <<8056, 8057, 1, 128>>, <<8058, 8059, 1, 112>>,
     <<8060, 8061, 1, 126>>, <<8112, 8113, 1, 8>>, <<8126, 8126, 1, -7205>>, <<8144, 8145, 1, 8>>,
     <<8160, 8161, 1, 8>>, <<8165, 8165, 1, 7>>, <<8526, 8526, 1, -28>>, <<8560, 8575, 1, -16>>,
     <<8580, 8580, 1, -1>>, <<9424, 9449, 1, -26>>, <<11312, 11359, 1, -48>>,
     <<11361, 11361, 1, -1>>, <<11365, 11365, 1, -10795>>, <<11366, 11366, 1, -10792>>,
     <<11368, 11372, 2, -1>>, <<11379, 11379, 1, -1>>, <<11382, 11382, 1, -1>>,
     <<11393, 11491, 2, -1>>, <<11500, 11502, 2, -1>>, <<11507, 11507, 1, -1>>,
     <<11520, 11557, 1, -7264>>, <<11559, 11559, 1, -7264>>, <<11565, 11565, 1, -7264>>,
     <<42561, 42605, 2, -1>>, <<42625, 42651, 2, -1>>, <<42787, 42799, 2, -1>>,
     <<42803, 42863, 2, -1>>, <<42874, 42876, 2, -1>>, <<42879, 42887, 2, -1>>,
     <<42892, 42892, 1, -1>>, <<42897, 42899, 2, -1>>, <<42900, 42900, 1, 48>>,
     <<42903, 42921, 2, -1>>, <<42933, 42947, 2, -1>>, <<42952, 42954, 2, -1>>,
     <<42961, 42961, 1, -1>>, <<42967, 42969, 2, -1>>, <<42998, 42998, 1, -1>>,
     <<43859, 43859, 1, -928>>, <<43888, 43967, 1, -38864>>, <<65345, 65370, 1, -32>>,
     <<66600, 66639, 1, -40>>, <<66776, 66811, 1, -40>>, <<66967, 67003, 2, -39>>,
     <<66968, 66976, 2, -39>>, <<66980, 66992, 2, -39>>, <<66996, 67000, 2, -39>>,
     <<67004, 67004, 1, -39>>, <<68800, 68850, 1, -64>>, <<71872, 71903, 1, -32>>,
     <<93792, 93823, 1, -32>>, <<125218, 125251, 1, -34>>>>

\* the characters whose uppercase mapping is more than one character, with that mapping
UpperSpecial ==
    <<<<223, <<83, 83>>>>, <<329, <<700, 78>>>>, <<496, <<74, 780>>>>, <<912, <<921, 776, 769>>>>,
     <<944, <<933, 776, 769>>>>, <<1415, <<1333, 1362>>>>, <<7830, <<72, 817>>>>,
     <<7831, <<84, 776>>>>, <<7832, <<87, 778>>>>, <<7833, <<89, 778>>>>, <<7834, <<65, 702>>>>,
     <<8016, <<933, 787>>>>, <<8018, <<933, 787, 768>>>>, <<8020, <<933, 787, 769>>>>,
     <<8022, <<933, 787, 834>>>>, <<8064, <<7944, 921>>>>, <<8065, <<7945, 921>>>>,
     <<8066, <<7946, 921>>>>, <<8067, <<7947, 921>>>>, <<8068, <<7948, 921>>>>,
     <<8069, <<7949, 921>>>>, <<8070, <<7950, 921>>>>, <<8071, <<7951, 921>>>>,
     <<8072, <<7944, 921>>>>, <<8073, <<7945, 921>>>>, <<8074, <<7946, 921>>>>,
     <<8075, <<7947, 921>>>>, <<8076, <<7948, 921>>>>, <<8077, <<7949, 921>>>>,
     <<8078, <<7950, 921>>>>, <<8079, <<7951, 921>>>>, <<8080, <<7976, 921>>>>,
     <<8081, <<7977, 921>>>>, <<8082, <<7978, 921>>>>, <<8083, <<7979, 921>>>>,
     <<8084, <<7980, 921>>>>, <<8085, <<7981, 921>>>>, <<8086, <<7982, 921>>>>,
     <<8087, <<7983, 921>>>>, <<8088, <<7976, 921>>>>, <<8089, <<7977, 921>>>>,
     <<8090, <<7978, 921>>>>, <<8091, <<7979, 921>>>>, <<8092, <<7980, 921>>>>,
     <<8093, <<7981, 921>>>>, <<8094, <<7982, 921>>>>, <<8095, <<7983, 921>>>>,
     <<8096, <<8040, 921>>>>, <<8097, <<8041, 921>>>>, <<8098, <<8042, 921>>>>,
     <<8099, <<8043, 921>>>>, <<8100, <<8044, 921>>>>, <<8101, <<8045, 921>>>>,
     <<8102, <<8046, 921>>>>, <<8103, <<8047, 921>>>>, <<8104, <<8040, 921>>>>,
     <<8105, <<8041, 921>>>>, <<8106, <<8042, 921>>>>, <<8107, <<8043, 921>>>>,
     <<8108, <<8044, 921>>>>, <<8109, <<8045, 921>>>>, <<8110, <<8046, 921>>>>,
     <<8111, <<8047, 921>>>>, <<8114, <<8122, 921>>>>, <<8115, <<913, 921>>>>,
     <<8116, <<902, 921>>>>, <<8118, <<913, 834>>>>, <<8119, <<913, 834, 921>>>>,
     <<8124, <<913, 921>>>>, <<8130, <<8138, 921>>>>, <<8131, <<919, 921>>>>,
     <<8132, <<905, 921>>>>, <<8134, <<919, 834>>>>, <<8135, <<919, 834, 921>>>>,
     <<8140, <<919, 921>>>>, <<8146, <<921, 776, 768>>>>, <<8147, <<921, 776, 769>>>>,
     <<8150, <<921, 834>>>>, <<8151, <<921, 776, 834>>>>, <<8162, <<933, 776, 768>>>>,
     <<8163, <<933, 776, 769>>>>, <<8164, <<929, 787>>>>, <<8166, <<933, 834>>>>,
     <<8167, <<933, 776, 834>>>>, <<8178, <<8186, 921>>>>, <<8179, <<937, 921>>>>,
     <<8180, <<911, 921>>>>, <<8182, <<937, 834>>>>, <<8183, <<937, 834, 921>>>>,
     <<8188, <<937, 921>>>>, <<64256, <<70, 70>>>>, <<64257, <<70, 73>>>>, <<64258, <<70, 76>>>>,
     <<64259, <<70, 70, 73>>>>, <<64260, <<70, 70, 76>>>>, <<64261, <<83, 84>>>>,
     <<64262, <<83, 84>>>>, <<64275, <<1348, 1350>>>>, <<64276, <<1348, 1333>>>>,
     <<64277, <<1348, 1339>>>>, <<64278, <<1358, 1350>>>>, <<64279, <<1348, 1341>>>>>>

\* the ranges <<first, last>> of the cased characters (Lowercase, Uppercase, or a titlecase
\* letter)
CasedRanges ==
    <<<<65, 90>>, <<97, 122>>, <<170, 170>>, <<181, 181>>, <<186, 186>>, <<192, 214>>,
     <<216, 246>>, <<248, 442>>, <<444, 447>>, <<452, 659>>, <<661, 696>>, <<704, 705>>,
     <<736, 740>>, <<837, 837>>, <<880, 883>>, <<886, 887>>, <<890, 893>>, <<895, 895>>,
     <<902, 902>>, <<904, 906>>, <<908, 908>>, <<910, 929>>, <<931, 1013>>, <<1015, 1153>>,
     <<1162, 1327>>, <<1329, 1366>>, <<1376, 1416>>, <<4256, 4293>>, <<4295, 4295>>,
     <<4301, 4301>>, <<4304, 4346>>, <<4349, 4351>>, <<5024, 5109>>, <<5112, 5117>>,
     <<7296, 7304>>, <<7312, 7354>>, <<7357, 7359>>, <<7424, 7615>>, <<7680, 7957>>,
     <<7960, 7965>>, <<7968, 8005>>, <<8008, 8013>>, <<8016, 8023>>, <<8025, 8025>>,
     <<8027, 8027>>, <<8029, 8029>>, <<8031, 8061>>, <<8064, 8116>>, <<8118, 8124>>,
     <<8126, 8126>>, <<8130, 8132>>, <<8134, 8140>>, <<8144, 8147>>, <<8150, 8155>>,
     <<8160, 8172>>, <<8178, 8180>>, <<8182, 8188>>, <<8305, 8305>>, <<8319, 8319>>,
     <<8336, 8348>>, <<8450, 8450>>, <<8455, 8455>>, <<8458, 8467>>, <<8469, 8469>>,
     <<8473, 8477>>, <<8484, 8484>>, <<8486, 8486>>, <<8488, 8488>>, <<8490, 8493>>,
     <<8495, 8500>>, <<8505, 8505>>, <<8508, 8511>>, <<8517, 8521>>, <<8526, 8526>>,
     <<8544, 8575>>, <<8579, 8580>>, <<9398, 9449>>, <<11264, 11492>>, <<11499, 11502>>,
     <<11506, 11507>>, <<11520, 11557>>, <<11559, 11559>>, <<11565, 11565>>, <<42560, 42605>>,
     <<42624, 42653>>, <<42786, 42887>>, <<42891, 42894>>, <<42896, 42954>>, <<42960, 42961>>,
     <<42963, 42963>>, <<42965, 42969>>, <<42997, 42998>>, <<43000, 43002>>, <<43824, 43866>>,
     <<43868, 43880>>, <<43888, 43967>>, <<64256, 64262>>, <<64275, 64279>>, <<65313, 65338>>,
     <<65345, 65370>>, <<66560, 66639>>, <<66736, 66771>>, <<66776, 66811>>, <<66928, 66938>>,
     <<66940, 66954>>, <<66956, 66962>>, <<66964, 66965>>, <<66967, 66977>>, <<66979, 66993>>,
     <<66995, 67001>>, <<67003, 67004>>, <<67456, 67456>>, <<67459, 67461>>, <<67463, 67504>>,
     <<67506, 67514>>, <<68736, 68786>>, <<68800, 68850>>, <<71840, 71903>>, <<93760, 93823>>,
     <<119808, 119892>>, <<119894, 119964>>, <<119966, 119967>>, <<119970, 119970>>,
     <<119973, 119974>>, <<119977, 119980>>, <<119982, 119993>>, <<119995, 119995>>,
     <<119997, 120003>>, <<120005, 120069>>, <<120071, 120074>>, <<120077, 120084>>,
     <<120086, 120092>>, <<120094, 120121>>, <<120123, 120126>>, <<120128, 120132>>,
     <<120134, 120134>>, <<120138, 120144>>, <<120146, 120485>>, <<120488, 120512>>,
     <<120514, 120538>>, <<120540, 120570>>, <<120572, 120596>>, <<120598, 120628>>,
     <<120630, 120654>>, <<120656, 120686>>, <<120688, 120712>>, <<120714, 120744>>,
     <<120746, 120770>>, <<120772, 120779>>, <<122624, 122633>>, <<122635, 122654>>,
     <<125184, 125251>>, <<127280, 127305>>, <<127312, 127337>>, <<127344, 127369>>>>

\* the ranges of the case-ignorable characters
CaseIgnorableRanges ==
    <<<<39, 39>>, <<46, 46>>, <<58, 58>>, <<94, 94>>, <<96, 96>>, <<168, 168>>, <<173, 173>>,
     <<175, 175>>, <<180, 180>>, <<183, 184>>, <<688, 879>>, <<884, 885>>, <<890, 890>>,
     <<900, 901>>, <<903, 903>>, <<1155, 1161>>, <<1369, 1369>>, <<1375, 1375>>, <<1425, 1469>>,
     <<1471, 1471>>, <<1473, 1474>>, <<1476, 1477>>, <<1479, 1479>>, <<1524, 1524>>,
     <<1536, 1541>>, <<1552, 1562>>, <<1564, 1564>>, <<1600, 1600>>, <<1611, 1631>>,
     <<1648, 1648>>, <<1750, 1757>>, <<1759, 1768>>, <<1770, 1773>>, <<1807, 1807>>,
     <<1809, 1809>>, <<1840, 1866>>, <<1958, 1968>>, <<2027, 2037>>, <<2042, 2042>>,
     <<2045, 2045>>, <<2070, 2093>>, <<2137, 2139>>, <<2184, 2184>>, <<2192, 2193>>,
     <<2200, 2207>>, <<2249, 2306>>, <<2362, 2362>>, <<2364, 2364>>, <<2369, 2376>>,
     <<2381, 2381>>, <<2385, 2391>>, <<2402, 2403>>, <<2417, 2417>>, <<2433, 2433>>,
     <<2492, 2492>>, <<2497, 2500>>, <<2509, 2509>>, <<2530, 2531>>, <<2558, 2558>>,
     <<2561, 2562>>, <<2620, 2620>>, <<2625, 2626>>, <<2631, 2632>>, <<2635, 2637>>,
     <<2641, 2641>>, <<2672, 2673>>, <<2677, 2677>>, <<2689, 2690>>, <<2748, 2748>>,
     <<2753, 2757>>, <<2759, 2760>>, <<2765, 2765>>, <<2786, 2787>>, <<2810, 2815>>,
     <<2817, 2817>>, <<2876, 2876>>, <<2879, 2879>>, <<2881, 2884>>, <<2893, 2893>>,
     <<2901, 2902>>, <<2914, 2915>>, <<2946, 2946>>, <<3008, 3008>>, <<3021, 3021>>,
     <<3072, 3072>>, <<3076, 3076>>, <<3132, 3132>>, <<3134, 3136>>, <<3142, 3144>>,
     <<3146, 3149>>, <<3157, 3158>>, <<3170, 3171>>, <<3201, 3201>>, <<3260, 3260>>,
     <<3263, 3263>>, <<3270, 3270>>, <<3276, 3277>>, <<3298, 3299>>, <<3328, 3329>>,
     <<3387, 3388>>, <<3393, 3396>>, <<3405, 3405>>, <<3426, 3427>>, <<3457, 3457>>,
     <<3530, 3530>>, <<3538, 3540>>, <<3542, 3542>>, <<3633, 3633>>, <<3636, 3642>>,
     <<3654, 3662>>, <<3761, 3761>>, <<3764, 3772>>, <<3782, 3782>>, <<3784, 3789>>,
     <<3864, 3865>>, <<3893, 3893>>, <<3895, 3895>>, <<3897, 3897>>, <<3953, 3966>>,
     <<3968, 3972>>, <<3974, 3975>>, <<3981, 3991>>, <<3993, 4028>>, <<4038, 4038>>,
     <<4141, 4144>>, <<4146, 4151>>, <<4153, 4154>>, <<4157, 4158>>, <<4184, 4185>>,
     <<4190, 4192>>, <<4209, 4212>>, <<4226, 4226>>, <<4229, 4230>>, <<4237, 4237>>,
     <<4253, 4253>>, <<4348, 4348>>, <<4957, 4959>>, <<5906, 5908>>, <<5938, 5939>>,
     <<5970, 5971>>, <<6002, 6003>>, <<6068, 6069>>, <<6071, 6077>>, <<6086, 6086>>,
     <<6089, 6099>>, <<6103, 6103>>, <<6109, 6109>>, <<6155, 6159>>, <<6211, 6211>>,
     <<6277, 6278>>, <<6313, 6313>>, <<6432, 6434>>, <<6439, 6440>>, <<6450, 6450>>,
     <<6457, 6459>>, <<6679, 6680>>, <<6683, 6683>>, <<6742, 6742>>, <<6744, 6750>>,
     <<6752, 6752>>, <<6754, 6754>>, <<6757, 6764>>, <<6771, 6780>>, <<6783, 6783>>,
     <<6823, 6823>>, <<6832, 6862>>, <<6912, 6915>>, <<6964, 6964>>, <<6966, 6970>>,
     <<6972, 6972>>, <<6978, 6978>>, <<7019, 7027>>, <<7040, 7041>>, <<7074, 7077>>,
     <<7080, 7081>>, <<7083, 7085>>, <<7142, 7142>>, <<7144, 7145>>, <<7149, 7149>>,
     <<7151, 7153>>, <<7212, 7219>>, <<7222, 7223>>, <<7288, 7293>>, <<7376, 7378>>,
     <<7380, 7392>>, <<7394, 7400>>, <<7405, 7405>>, <<7412, 7412>>, <<7416, 7417>>,
     <<7468, 7530>>, <<7544, 7544>>, <<7579, 7679>>, <<8125, 8125>>, <<8127, 8129>>,
     <<8141, 8143>>, <<8157, 8159>>, <<8173, 8175>>, <<8189, 8190>>, <<8203, 8207>>,
     <<8216, 8217>>, <<8228, 8228>>, <<8231, 8231>>, <<8234, 8238>>, <<8288, 8292>>,
     <<8294, 8303>>, <<8305, 8305>>, <<8319, 8319>>, <<8336, 8348>>, <<8400, 8432>>,
     <<11388, 11389>>, <<11503, 11505>>, <<11631, 11631>>, <<11647, 11647>>, <<11744, 11775>>,
     <<11823, 11823>>, <<12293, 12293>>, <<12330, 12333>>, <<12337, 12341>>, <<12347, 12347>>,
     <<12441, 12446>>, <<12540, 12542>>, <<40981, 40981>>, <<42232, 42237>>, <<42508, 42508>>,
     <<42607, 42610>>, <<42612, 42621>>, <<42623, 42623>>, <<42652, 42655>>, <<42736, 42737>>,
     <<42752, 42785>>, <<42864, 42864>>, <<42888, 42890>>, <<42994, 42996>>, <<43000, 43001>>,
     <<43010, 43010>>, <<43014, 43014>>, <<43019, 43019>>, <<43045, 43046>>, <<43052, 43052>>,
     <<43204, 43205>>, <<43232, 43249>>, <<43263, 43263>>, <<43302, 43309>>, <<43335, 43345>>,
     <<43392, 43394>>, <<43443, 43443>>, <<43446, 43449>>, <<43452, 43453>>, <<43471, 43471>>,
     <<43493, 43494>>, <<43561, 43566>>, <<43569, 43570>>, <<43573, 43574>>, <<43587, 43587>>,
     <<43596, 43596>>, <<43632, 43632>>, <<43644, 43644>>, <<43696, 43696>>, <<43698, 43700>>,
     <<43703, 43704>>, <<43710, 43711>>, <<43713, 43713>>, <<43741, 43741>>, <<43756, 43757>>,
     <<43763, 43764>>, <<43766, 43766>>, <<43867, 43871>>, <<43881, 43883>>, <<44005, 44005>>,
     <<44008, 44008>>, <<44013, 44013>>, <<64286, 64286>>, <<64434, 64450>>, <<65024, 65039>>,
     <<65043, 65043>>, <<65056, 65071>>, <<65106, 65106>>, <<65109, 65109>>, <<65279, 65279>>,
     <<65287, 65287>>, <<65294, 65294>>, <<65306, 65306>>, <<65342, 65342>>, <<65344, 65344>>,
     <<65392, 65392>>, <<65438, 65439>>, <<65507, 65507>>, <<65529, 65531>>, <<66045, 66045>>,
     <<66272, 66272>>, <<66422, 66426>>, <<67456, 67461>>, <<67463, 67504>>, <<67506, 67514>>,
     <<68097, 68099>>, <<68101, 68102>>, <<68108, 68111>>, <<68152, 68154>>, <<68159, 68159>>,
     <<68325, 68326>>, <<68900, 68903>>, <<69291, 69292>>, <<69446, 69456>>, <<69506, 69509>>,
     <<69633, 69633>>, <<69688, 69702>>, <<69744, 69744>>, <<69747, 69748>>, <<69759, 69761>>,
     <<69811, 69814>>, <<69817, 69818>>, <<69821, 69821>>, <<69826, 69826>>, <<69837, 69837>>,
     <<69888, 69890>>, <<69927, 69931>>, <<69933, 69940>>, <<70003, 70003>>, <<70016, 70017>>,
     <<70070, 70078>>, <<70089, 70092>>, <<70095, 70095>>, <<70191, 70193>>, <<70196, 70196>>,
     <<70198, 70199>>, <<70206, 70206>>, <<70367, 70367>>, <<70371, 70378>>, <<70400, 70401>>,
     <<70459, 70460>>, <<70464, 70464>>, <<70502, 70508>>, <<70512, 70516>>, <<70712, 70719>>,
     <<70722, 70724>>, <<70726, 70726>>, <<70750, 70750>>, <<70835, 70840>>, <<70842, 70842>>,
     <<70847, 70848>>, <<70850, 70851>>, <<71090, 71093>>, <<71100, 71101>>, <<71103, 71104>>,
     <<71132, 71133>>, <<71219, 71226>>, <<71229, 71229>>, <<71231, 71232>>, <<71339, 71339>>,
     <<71341, 71341>>, <<71344, 71349>>, <<71351, 71351>>, <<71453, 71455>>, <<71458, 71461>>,
     <<71463, 71467>>, <<71727, 71735>>, <<71737, 71738>>, <<71995, 71996>>, <<71998, 71998>>,
     <<72003, 72003>>, <<72148, 72151>>, <<72154, 72155>>, <<72160, 72160>>, <<72193, 72202>>,
     <<72243, 72248>>, <<72251, 72254>>, <<72263, 72263>>, <<72273, 72278>>, <<72281, 72283>>,
     <<72330, 72342>>, <<72344, 72345>>, <<72752, 72758>>, <<72760, 72765>>, <<72767, 72767>>,
     <<72850, 72871>>, <<72874, 72880>>, <<72882, 72883>>, <<72885, 72886>>, <<73009, 73014>>,
     <<73018, 73018>>, <<73020, 73021>>, <<73023, 73029>>, <<73031, 73031>>, <<73104, 73105>>,
     <<73109, 73109>>, <<73111, 73111>>, <<73459, 73460>>, <<78896, 78904>>, <<92912, 92916>>,
     <<92976, 92982>>, <<92992, 92995>>, <<94031, 94031>>, <<94095, 94111>>, <<94176, 94177>>,
     <<94179, 94180>>, <<110576, 110579>>, <<110581, 110587>>, <<110589, 110590>>,
     <<113821, 113822>>, <<113824, 113827>>, <<118528, 118573>>, <<118576, 118598>>,
     <<119143, 119145>>, <<119155, 119170>>, <<119173, 119179>>, <<119210, 119213>>,
     <<119362, 119364>>, <<121344, 121398>>, <<121403, 121452>>, <<121461, 121461>>,
     <<121476, 121476>>, <<121499, 121503>>, <<121505, 121519>>, <<122880, 122886>>,
     <<122888, 122904>>, <<122907, 122913>>, <<122915, 122916>>, <<122918, 122922>>,
     <<123184, 123197>>, <<123566, 123566>>, <<123628, 123631>>, <<125136, 125142>>,
     <<125252, 125259>>, <<127995, 127999>>, <<917505, 917505>>, <<917536, 917631>>,
     <<917760, 917999>>>>

InRun(c, r) == r[1] <= c /\ c <= r[2] /\ (c - r[1]) % r[3] = 0

\* c mapped by the run that holds it, or c itself
MappedBy(runs, c) ==
    IF \E i \in DOMAIN runs : InRun(c, runs[i])
    THEN c + runs[CHOOSE i \in DOMAIN runs : InRun(c, runs[i])][4]
    ELSE c

InRanges(ranges, c) == \E i \in DOMAIN ranges : ranges[i][1] <= c /\ c <= ranges[i][2]

IsCased(c) == InRanges(CasedRanges, c)

IsCaseIgnorable(c) == InRanges(CaseIgnorableRanges, c)

\* the lowercase of one character: U+0130 gives "i" and a combining dot above
ToLowerFull(c) == IF c = 304 THEN <<105, 775>> ELSE <<MappedBy(LowerRuns, c)>>

\* the uppercase of one character
ToUpperFull(c) ==
    IF \E i \in DOMAIN UpperSpecial : UpperSpecial[i][1] = c
    THEN UpperSpecial[CHOOSE i \in DOMAIN UpperSpecial : UpperSpecial[i][1] = c][2]
    ELSE <<MappedBy(UpperRuns, c)>>

\* whether the capital sigma s[i] ends a word: a cased character comes before it, and none
\* after it, case-ignorable characters skipped both ways
FinalSigma(s, i) ==
    LET before == {j \in 1..(i - 1) : ~IsCaseIgnorable(s[j])}
        after == {j \in (i + 1)..Len(s) : ~IsCaseIgnorable(s[j])}
    IN  /\ before # {}
        /\ IsCased(s[CHOOSE j \in before : \A k \in before : k <= j])
        /\ after = {} \/ ~IsCased(s[CHOOSE j \in after : \A k \in after : j <= k])

\* the texts of a sequence joined
RECURSIVE Join(_)
Join(texts) == IF texts = <<>> THEN <<>> ELSE Head(texts) \o Join(Tail(texts))

IsASCII(s) == \A i \in 1..Len(s) : s[i] < 128

\* s.lower()
lower(s) ==
    IF IsASCII(s) THEN [i \in 1..Len(s) |-> IF s[i] \in 65..90 THEN s[i] + 32 ELSE s[i]]
    ELSE Join([i \in 1..Len(s) |->
            IF s[i] = 931 THEN <<IF FinalSigma(s, i) THEN 962 ELSE 963>>
            ELSE ToLowerFull(s[i])])

\* s.upper()
upper(s) ==
    IF IsASCII(s) THEN [i \in 1..Len(s) |-> IF s[i] \in 97..122 THEN s[i] - 32 ELSE s[i]]
    ELSE Join([i \in 1..Len(s) |-> ToUpperFull(s[i])])

(***************************************************************************)
(* Decimal text of integers.                                               *)
(***************************************************************************)
\* value of a run of decimal digits
RECURSIVE DigitsValue(_)
DigitsValue(ds) ==
    IF ds = <<>> THEN 0
    ELSE 10 * DigitsValue(SubSeq(ds, 1, Len(ds) - 1)) + (ds[Len(ds)] - 48)

\* decimal digits of n >= 0
RECURSIVE DigitsOf(_)
DigitsOf(n) ==
    IF n < 10 THEN <<48 + n>> ELSE Append(DigitsOf(n \div 10), 48 + (n % 10))

\* str(n) for an int
StrOfInt(n) == IF n < 0 THEN <<45>> \o DigitsOf(-n) ELSE DigitsOf(n)

\* n >= 0 written with width digits at least ("%0<width>d")
RECURSIVE FixedDigits(_, _)
FixedDigits(n, width) ==
    IF width <= 1 /\ n < 10 THEN <<48 + n>>
    ELSE Append(FixedDigits(n \div 10, width - 1), 48 + (n % 10))

\* trailing zeros dropped, one digit kept at least
RECURSIVE DropTrailingZeros(_)
DropTrailingZeros(ds) ==
    IF Len(ds) > 1 /\ ds[Len(ds)] = 48
    THEN DropTrailingZeros(SubSeq(ds, 1, Len(ds) - 1))
    ELSE ds

(***************************************************************************)
(* Natural numbers of any size, for the 53-bit significands of floats and  *)
(* the exact products and quotients between them: little-endian sequences  *)
(* of 15-bit limbs without a leading zero limb; <<>> is 0.                 *)
(***************************************************************************)
Limb(x) == x % 32768

Carry(x) == x \div 32768

Front(a) == SubSeq(a, 1, Len(a) - 1)

Min(x, y) == IF x < y THEN x ELSE y

Max(x, y) == IF x < y THEN y ELSE x

LowHalf(a) == SubSeq(a, 1, Len(a) \div 2)

HighHalf(a) == SubSeq(a, Len(a) \div 2 + 1, Len(a))

\* a with zero limbs on top up to n limbs
Pad(a, n) == a \o [i \in 1..(n - Len(a)) |-> 0]

RECURSIVE BnTrim(_)
BnTrim(a) == IF a # <<>> /\ a[Len(a)] = 0 THEN BnTrim(Front(a)) ELSE a

\* n >= 0
RECURSIVE BnOfInt(_)
BnOfInt(n) == IF n = 0 THEN <<>> ELSE <<Limb(n)>> \o BnOfInt(Carry(n))

\* the int n
PyInt(n) == PyLong(n < 0, BnOfInt(IF n < 0 THEN -n ELSE n))

\* the Len(a) limbs of a + b + c and the carry out of them, a and b of one length
RECURSIVE AddLimbs(_, _, _)
AddLimbs(a, b, c) ==
    IF a = <<>> THEN <<c>>
    ELSE IF Len(a) = 1 THEN <<Limb(a[1] + b[1] + c), Carry(a[1] + b[1] + c)>>
    ELSE LET low == AddLimbs(LowHalf(a), LowHalf(b), c)
         IN  Front(low) \o AddLimbs(HighHalf(a), HighHalf(b), low[Len(low)])

\* a + b + c
BnAdd3(a, b, c) ==
    IF Len(a) < Len(b) THEN BnTrim(AddLimbs(Pad(a, Len(b)), b, c))
    ELSE BnTrim(AddLimbs(a, Pad(b, Len(a)), c))

BnAdd(a, b) == BnAdd3(a, b, 0)

\* the Len(a) limbs of a - b - c modulo 32768^Len(a) and the borrow out of them, a and b
\* of one length
RECURSIVE SubLimbs(_, _, _)
SubLimbs(a, b, c) ==
    IF a = <<>> THEN <<c>>
    ELSE IF Len(a) = 1
    THEN <<Limb(a[1] - b[1] - c + 32768), IF a[1] - b[1] - c < 0 THEN 1 ELSE 0>>
    ELSE LET low == SubLimbs(LowHalf(a), LowHalf(b), c)
         IN  Front(low) \o SubLimbs(HighHalf(a), HighHalf(b), low[Len(low)])

\* a - b for a >= b
BnSub(a, b) == BnTrim(Front(SubLimbs(a, Pad(b, Len(a)), 0)))

\* -1, 0, 1 as a < b, a = b, a > b, for a and b of one length
RECURSIVE CmpLimbs(_, _)
CmpLimbs(a, b) ==
    IF a = b THEN 0
    ELSE IF Len(a) = 1 THEN (IF a[1] < b[1] THEN -1 ELSE 1)
    ELSE IF HighHalf(a) # HighHalf(b) THEN CmpLimbs(HighHalf(a), HighHalf(b))
    ELSE CmpLimbs(LowHalf(a), LowHalf(b))

\* -1, 0, 1 as a < b, a = b, a > b
BnCmp(a, b) ==
    IF Len(a) # Len(b) THEN (IF Len(a) < Len(b) THEN -1 ELSE 1) ELSE CmpLimbs(a, b)

\* the Len(a) limbs of a * k + c and the carry out of them, for 1 <= k <= 32768
RECURSIVE MulLimbs(_, _, _)
MulLimbs(a, k, c) ==
    IF a = <<>> THEN <<c>>
    ELSE IF Len(a) = 1 THEN <<Limb(a[1] * k + c), Carry(a[1] * k + c)>>
    ELSE LET low == MulLimbs(LowHalf(a), k, c)
         IN  Front(low) \o MulLimbs(HighHalf(a), k, low[Len(low)])

\* a * k + c for 1 <= k <= 32768
BnMul3(a, k, c) == BnTrim(MulLimbs(a, k, c))

\* the Len(a) limbs of floor((r * 32768^Len(a) + a) / k), the highest first, and then
\* (r * 32768^Len(a) + a) % k, for r < k <= 32768
RECURSIVE DivLimbs(_, _, _)
DivLimbs(a, k, r) ==
    IF a = <<>> THEN <<r>>
    ELSE IF Len(a) = 1 THEN <<(r * 32768 + a[1]) \div k, (r * 32768 + a[1]) % k>>
    ELSE LET high == DivLimbs(HighHalf(a), k, r)
         IN  Front(high) \o DivLimbs(LowHalf(a), k, high[Len(high)])

\* a % k
BnMod(a, k) == DivLimbs(a, k, 0)[Len(a) + 1]

\* floor(a / k)
BnDiv(a, k) ==
    LET q == DivLimbs(a, k, 0)
    IN  BnTrim([i \in 1..Len(a) |-> q[Len(a) + 1 - i]])

\* a * 2^n
BnShl(a, n) ==
    LET q == n \div 15
        r == n % 15
    IN  BnTrim([j \in 1..(Len(a) + q + 1) |->
                    (IF q < j /\ j <= Len(a) + q THEN (a[j - q] % 2 ^ (15 - r)) * 2 ^ r ELSE 0)
                    + (IF q + 1 < j THEN a[j - q - 1] \div 2 ^ (15 - r) ELSE 0)])

\* floor(a / 2^n)
BnShr(a, n) ==
    LET q == n \div 15
        r == n % 15
    IN  BnTrim([j \in 1..(Len(a) - q) |->
                    a[j + q] \div 2 ^ r
                    + (IF j + q < Len(a) THEN (a[j + q + 1] % 2 ^ r) * 2 ^ (15 - r) ELSE 0)])

\* the number of bits of a
BnBitLen(a) ==
    IF a = <<>> THEN 0
    ELSE 15 * (Len(a) - 1) + (CHOOSE k \in 1..15 : 2 ^ (k - 1) <= a[Len(a)] /\ a[Len(a)] < 2 ^ k)

\* bit i of a, bit 0 the lowest
BnBit(a, i) == IF i \div 15 >= Len(a) THEN 0 ELSE (a[i \div 15 + 1] \div 2 ^ (i % 15)) % 2

\* the n lowest bits of a are all zero
BnLowZero(a, n) ==
    /\ \A j \in 1..Min(n \div 15, Len(a)) : a[j] = 0
    /\ n \div 15 >= Len(a) \/ a[n \div 15 + 1] % 2 ^ (n % 15) = 0

\* a * 5^n
RECURSIVE BnMulPow5(_, _)
BnMulPow5(a, n) ==
    IF a = <<>> \/ n = 0 THEN a
    ELSE IF n <= 6 THEN BnMul3(a, 5 ^ n, 0)
    ELSE BnMulPow5(BnMulPow5(a, n \div 2), n - n \div 2)

\* floor(a / 5^n)
RECURSIVE BnDivPow5(_, _)
BnDivPow5(a, n) ==
    IF a = <<>> \/ n = 0 THEN a
    ELSE IF n <= 6 THEN BnDiv(a, 5 ^ n)
    ELSE BnDivPow5(BnDivPow5(a, n \div 2), n - n \div 2)

\* the value of a run of decimal digits (each 0..9), most significant first
RECURSIVE BnOfDigits(_)
BnOfDigits(ds) ==
    IF Len(ds) <= 4 THEN BnOfInt(DigitsValue(ds))
    ELSE BnAdd(BnShl(BnMulPow5(BnOfDigits(LowHalf(ds)), Len(ds) - Len(ds) \div 2),
                     Len(ds) - Len(ds) \div 2),
               BnOfDigits(HighHalf(ds)))

(***************************************************************************)
(* float: an IEEE 754 binary64.  A finite float is (-1)^neg * m * 2^e with *)
(* m < 2^53 and e >= -1074, m >= 2^52 unless e = -1074 (zero: m = 0,       *)
(* e = 0, signed); the other floats are inf, -inf and nan.  Every          *)
(* operation rounds its exact result to the nearest float, a tie to the    *)
(* even significand.                                                       *)
(***************************************************************************)
Finite(neg, m, e) == [t |-> "float", neg |-> neg, m |-> m, e |-> e, c |-> "finite"]

Zero(neg) == Finite(neg, <<>>, 0)

Inf(neg) == [t |-> "float", neg |-> neg, c |-> "inf"]

NaN == [t |-> "float", c |-> "nan"]

\* floor(M / 2^shift) rounded to nearest, a tie to even, for shift >= 1; sticky: the
\* value rounded is a little more than M
RoundShift(M, shift, sticky) ==
    IF BnBit(M, shift - 1) = 1
       /\ (sticky \/ ~BnLowZero(M, shift - 1) \/ BnBit(M, shift) = 1)
    THEN BnAdd3(BnShr(M, shift), <<>>, 1)
    ELSE BnShr(M, shift)

\* the float of a rounded significand m <= 2^53
Pack(neg, m, e) ==
    IF m = <<>> THEN Zero(neg)
    ELSE IF BnBitLen(m) = 54
         THEN (IF e + 1 > 971 THEN Inf(neg) ELSE Finite(neg, BnShr(m, 1), e + 1))
    ELSE IF e > 971 THEN Inf(neg)
    ELSE Finite(neg, m, e)

RoundTo(neg, M, E, sticky, shift) ==
    Pack(neg, IF shift <= 0 THEN BnShl(M, -shift) ELSE RoundShift(M, shift, sticky), E + shift)

\* the float nearest to (-1)^neg * M * 2^E (a little more than M when sticky, which
\* needs M to have 55 bits at least)
MakeDouble(neg, M, E, sticky) ==
    IF M = <<>> THEN Zero(neg)
    ELSE RoundTo(neg, M, E, sticky, Max(E + BnBitLen(M) - 53, -1074) - E)

\* float(n) for an int: the nearest float, or OverflowError when that is beyond the
\* largest float
FloatOfInt(n) ==
    IF MakeDouble(n.neg, n.m, 0, FALSE).c = "inf" THEN Raise("OverflowError")
    ELSE Returns(MakeDouble(n.neg, n.m, 0, FALSE))

\* the float nearest to (-1)^neg * N / (5^d * 2^s), q = floor(N / 5^d) of 55 bits at least
QuotientToDouble(neg, N, q, d, s) == MakeDouble(neg, q, -s, BnMulPow5(q, d) # N)

ScaledDivPow5(neg, N, d, s) == QuotientToDouble(neg, N, BnDivPow5(N, d), d, s)

\* the float nearest to (-1)^neg * K * 10^dexp
DecimalToDouble(neg, K, dexp) ==
    IF K = <<>> THEN Zero(neg)
    ELSE IF dexp >= 0
         THEN (IF dexp > 342 THEN Inf(neg)
               ELSE MakeDouble(neg, BnMulPow5(K, dexp), dexp, FALSE))
    ELSE IF 3 * (-dexp) > BnBitLen(K) + 1076 THEN Zero(neg)
    ELSE ScaledDivPow5(neg, BnShl(K, 15 * (((7 * (-dexp)) \div 3 + 74) \div 15)), -dexp,
                       15 * (((7 * (-dexp)) \div 3 + 74) \div 15) - dexp)

\* -x
fneg(x) == IF x.c = "nan" THEN x ELSE [x EXCEPT !.neg = ~x.neg]

\* the sum of two finite nonzero floats whose significands are scaled to the exponent E
AddAligned(na, Ma, nb, Mb, E) ==
    IF na # nb /\ BnCmp(Ma, Mb) = 0 THEN Zero(FALSE)
    ELSE MakeDouble(IF na = nb \/ BnCmp(Ma, Mb) > 0 THEN na ELSE nb,
                    IF na = nb THEN BnAdd(Ma, Mb)
                    ELSE IF BnCmp(Ma, Mb) > 0 THEN BnSub(Ma, Mb)
                    ELSE BnSub(Mb, Ma),
                    E, FALSE)

\* a + b
fadd(a, b) ==
    IF a.c = "nan" \/ b.c = "nan" THEN NaN
    ELSE IF a.c = "inf" THEN (IF b.c = "inf" /\ a.neg # b.neg THEN NaN ELSE a)
    ELSE IF b.c = "inf" THEN b
    ELSE IF a.m = <<>> /\ b.m = <<>> THEN Zero(a.neg /\ b.neg)
    ELSE IF a.m = <<>> THEN b
    ELSE IF b.m = <<>> THEN a
    ELSE AddAligned(a.neg, BnShl(a.m, a.e - Min(a.e, b.e)),
                    b.neg, BnShl(b.m, b.e - Min(a.e, b.e)), Min(a.e, b.e))

\* a - b
fsub(a, b) == fadd(a, fneg(b))

\* x * 100.0
fmul100(x) ==
    IF x.c # "finite" THEN x ELSE MakeDouble(x.neg, BnMul3(x.m, 100, 0), x.e, FALSE)

\* the float nearest to (-1)^neg * N * 2^E / 100, for N > 0
DivideBy100(neg, N, E) ==
    MakeDouble(neg, BnDiv(BnShl(N, 75), 100), E - 75, BnMod(BnShl(N, 75), 100) # 0)

\* x / 100.0
fdiv100(x) == IF x.c # "finite" \/ x.m = <<>> THEN x ELSE DivideBy100(x.neg, x.m, x.e)

\* numpy.rint(x): to the nearest integer, a tie to the even one
rint(x) ==
    IF x.c # "finite" THEN x
    ELSE IF x.m = <<>> \/ x.e >= 0 THEN x
    ELSE MakeDouble(x.neg, RoundShift(x.m, -x.e, FALSE), 0, FALSE)

\* round(x, 2) of a numpy.float64 (numpy.round): rint(x * 100.0) / 100.0
np_round2(x) == fdiv100(rint(fmul100(x)))

\* the float nearest to (-1)^neg * N / 100
CentsToDouble(neg, N) == IF N = <<>> THEN Zero(neg) ELSE DivideBy100(neg, N, 0)

\* round(x, 2) of a Python float (float.__round__): the exact value of x written with two
\* decimals, correctly rounded with a tie to the even digit, and read back as a float
py_round2(x) ==
    IF x.c # "finite" THEN x
    ELSE IF x.m = <<>> \/ x.e >= 0 THEN x
    ELSE CentsToDouble(x.neg, RoundShift(BnMul3(x.m, 100, 0), -x.e, FALSE))

\* x is nan
isnan(x) == x.c = "nan"


(***************************************************************************)
(* float(text).  CPython maps the text to ASCII (only when it holds a      *)
(* character above ASCII: whitespace becomes a space, a decimal digit of   *)
(* any script its ASCII digit, any other character above ASCII a '?' that  *)
(* ends the text), takes out underscores that stand between two digits,    *)
(* strips the C whitespace \t \n \v \f \r and space, and reads what is     *)
(* left as [sign] inf | infinity | nan in any case, or as                  *)
(* [sign] digits [. digits] [e [sign] digits] with a digit before or after *)
(* the period; the decimal is rounded to the nearest float, inf when it is *)
(* too large.  Any other text raises ValueError.                           *)
(***************************************************************************)
\* the zero of every run of ten Unicode decimal digits (category Nd) above ASCII
DecimalZeros ==
    {1632, 1776, 1984, 2406, 2534, 2662, 2790, 2918, 3046, 3174, 3302, 3430, 3558, 3664,
     3792, 3872, 4160, 4240, 6112, 6160, 6470, 6608, 6784, 6800, 6992, 7088, 7232, 7248,
     42528, 43216, 43264, 43472, 43504, 43600, 44016, 65296, 66720, 68912, 69734, 69872,
     69942, 70096, 70384, 70736, 70864, 71248, 71360, 71472, 71904, 72016, 72784, 73040,
     73120, 92768, 92864, 93008, 120782, 120792, 120802, 120812, 120822, 123200, 123632,
     125264, 130032}

\* Py_UNICODE_TODECIMAL for a character above ASCII: its digit, -1 when it is no digit
ToDecimal(c) ==
    IF \E z \in DecimalZeros : c - z \in 0..9
    THEN c - (CHOOSE z \in DecimalZeros : c - z \in 0..9)
    ELSE -1

\* Py_ISSPACE
IsCSpace(c) == c \in (9..13) \cup {32}

\* _PyUnicode_TransformDecimalAndSpaceToASCII
TransformDecimalAndSpaceToASCII(s) ==
    LET unknown == {i \in 1..Len(s) : s[i] >= 127 /\ ~IsSpace(s[i]) /\ ToDecimal(s[i]) < 0}
        last == IF unknown = {} THEN Len(s)
                ELSE CHOOSE i \in unknown : \A j \in unknown : i <= j
    IN  IF \A i \in 1..Len(s) : s[i] < 128 THEN s
        ELSE [i \in 1..last |-> IF s[i] < 127 THEN s[i]
                                ELSE IF IsSpace(s[i]) THEN 32
                                ELSE IF ToDecimal(s[i]) >= 0 THEN 48 + ToDecimal(s[i])
                                ELSE 63]

\* every underscore stands between two digits
UnderscoresGroupDigits(s) ==
    \A i \in 1..Len(s) :
        s[i] = 95 => (1 < i /\ i < Len(s) /\ IsDigit(s[i - 1]) /\ IsDigit(s[i + 1]))

\* s without leading and trailing C whitespace
CStrip(s) ==
    LET keep == {i \in 1..Len(s) : ~IsCSpace(s[i])}
    IN  IF keep = {} THEN <<>>
        ELSE SubSeq(s, CHOOSE i \in keep : \A j \in keep : i <= j,
                       CHOOSE i \in keep : \A j \in keep : j <= i)

\* t without its sign
Unsigned(t) == IF t # <<>> /\ t[1] \in {43, 45} THEN Tail(t) ELSE t

IsNegative(t) == t # <<>> /\ t[1] = 45

\* "inf", "infinity", "nan"
INF == <<105, 110, 102>>

INFINITY == <<105, 110, 102, 105, 110, 105, 116, 121>>

NAN == <<110, 97, 110>>

\* the places of 'e' and 'E'
ExponentMarks(u) == {i \in 1..Len(u) : u[i] \in {69, 101}}

\* the part before the exponent mark
Mantissa(u) ==
    IF ExponentMarks(u) = {} THEN u
    ELSE SubSeq(u, 1, (CHOOSE i \in ExponentMarks(u) : \A j \in ExponentMarks(u) : i <= j) - 1)

\* the part after the exponent mark, for u with a mark
Exponent(u) ==
    SubSeq(u, (CHOOSE i \in ExponentMarks(u) : \A j \in ExponentMarks(u) : i <= j) + 1, Len(u))

\* digits [. digits] or . digits
IsMantissa(m) ==
    /\ \A i \in 1..Len(m) : IsDigit(m[i]) \/ m[i] = 46
    /\ Cardinality({i \in 1..Len(m) : m[i] = 46}) <= 1
    /\ \E i \in 1..Len(m) : IsDigit(m[i])

\* [sign] digits
IsExponent(x) ==
    Unsigned(x) # <<>> /\ \A i \in 1..Len(Unsigned(x)) : IsDigit(Unsigned(x)[i])

\* u is digits [. digits] [e [sign] digits]
IsDecimal(u) ==
    IsMantissa(Mantissa(u)) /\ (ExponentMarks(u) # {} => IsExponent(Exponent(u)))

RECURSIVE DropLeadingZeros(_)
DropLeadingZeros(ds) ==
    IF ds # <<>> /\ ds[1] = 48 THEN DropLeadingZeros(Tail(ds)) ELSE ds

\* the value of an exponent; beyond 10^6 the float is inf or zero whatever the exponent
ExponentValue(x) ==
    LET ds == DropLeadingZeros(Unsigned(x))
        mag == IF Len(ds) > 6 THEN 1000000 ELSE DigitsValue(ds)
    IN  IF IsNegative(x) THEN -mag ELSE mag

\* the digits after the period
FractionDigits(m) ==
    IF \E i \in 1..Len(m) : m[i] = 46
    THEN Len(m) - (CHOOSE i \in 1..Len(m) : m[i] = 46)
    ELSE 0

\* the float nearest to the decimal u, negated when neg
DecimalValue(neg, u) ==
    DecimalToDouble(neg, BnOfDigits(SelectSeq(Mantissa(u), IsDigit)),
                    (IF ExponentMarks(u) = {} THEN 0 ELSE ExponentValue(Exponent(u)))
                        - FractionDigits(Mantissa(u)))

\* float_from_string_inner
float_from_string_inner(s) ==
    LET t == CStrip(s)
    IN  IF lower(Unsigned(t)) \in {INF, INFINITY} THEN Returns(Inf(IsNegative(t)))
        ELSE IF lower(Unsigned(t)) = NAN THEN Returns(NaN)
        ELSE IF IsDecimal(Unsigned(t))
        THEN Returns(DecimalValue(IsNegative(t), Unsigned(t)))
        ELSE Raise("ValueError")

\* float(s) for a str: Returns(the float), or ValueError raised
float(s) ==
    LET a == TransformDecimalAndSpaceToASCII(s)
    IN  IF ~UnderscoresGroupDigits(a) THEN Raise("ValueError")
        ELSE float_from_string_inner(SelectSeq(a, LAMBDA c : c # 95))

(***************************************************************************)
(* repr(x) of a float, which str(x) is: the shortest run of digits that    *)
(* float() reads back as x, the nearest to x of that length; positional    *)
(* notation for 10^-4 <= |x| < 10^16, else exponent notation.              *)
(***************************************************************************)
\* q, floor(q / 10^4), floor(q / 10^8), ...: n of them
RECURSIVE Quotients(_, _)
Quotients(q, n) ==
    IF n = 1 THEN <<q>>
    ELSE LET low == Quotients(q, n \div 2)
         IN  low \o Quotients(BnDiv(low[Len(low)], 10000), n - n \div 2)

\* the decimal digits of a > 0, four from each of those quotients
BnDigits(a) ==
    LET n == BnBitLen(a) \div 13 + 1
        q == Quotients(a, n)
        chunk == [i \in 1..n |-> BnMod(q[i], 10000)]
    IN  DropLeadingZeros([j \in 1..(4 * n) |->
            48 + ((chunk[n - (j - 1) \div 4] \div 10 ^ (3 - ((j - 1) % 4))) % 10)])

\* the zero bits at the low end of x's mantissa that a negative exponent takes up:
\* x.m * 2^x.e = (x.m / 2^k) * 2^(x.e + k)
SpareBits(x) ==
    IF x.e >= 0 THEN 0
    ELSE CHOOSE k \in 0..Min(-x.e, 52) :
            BnLowZero(x.m, k) /\ (k = Min(-x.e, 52) \/ ~BnLowZero(x.m, k + 1))

\* the digits of the exact value of a finite x # 0, to its last digit that is not zero
\* at least: |x| = 0.DDD... * 10^DecimalPoint(x)
ExactDigits(x) ==
    IF x.e >= 0 THEN BnDigits(BnShl(x.m, x.e))
    ELSE BnDigits(BnMulPow5(BnShr(x.m, SpareBits(x)), -x.e - SpareBits(x)))

DecimalPoint(x) == Len(ExactDigits(x)) + (IF x.e < 0 THEN x.e + SpareBits(x) ELSE 0)

\* the first n digits of ds, zeros added to a shorter ds
FirstDigits(ds, n) == [i \in 1..n |-> IF i <= Len(ds) THEN ds[i] ELSE 48]

\* what follows the first n digits is more than half a unit of the n-th digit, or is
\* exactly half and the n-th digit is odd
RoundsUp(ds, n) ==
    /\ Len(ds) > n
    /\ \/ ds[n + 1] > 53
       \/ /\ ds[n + 1] = 53
          /\ \/ \E i \in (n + 2)..Len(ds) : ds[i] # 48
             \/ ds[n] % 2 = 1

\* the n-digit decimal K * 10^(point - n) is read back as x
ReadsBack(x, K, point, n) == DecimalToDouble(x.neg, K, point - n) = x

\* the shortest decimal that reads back as x, of n digits at least: K, with x about
\* K * 10^(point - n)
RECURSIVE Shortest(_, _, _, _)
Shortest(x, ds, point, n) ==
    LET down == BnOfDigits(FirstDigits(ds, n))
        up == BnAdd3(down, <<>>, 1)
    IN  IF ReadsBack(x, down, point, n) /\ ~(RoundsUp(ds, n) /\ ReadsBack(x, up, point, n))
        THEN [K |-> down, scale |-> point - n]
        ELSE IF ReadsBack(x, up, point, n) THEN [K |-> up, scale |-> point - n]
        ELSE Shortest(x, ds, point, n + 1)

\* the digits of repr and the place of the decimal point after them
ReprDigits(x) ==
    LET s == Shortest(x, ExactDigits(x), DecimalPoint(x), 1)
    IN  [point |-> Len(BnDigits(s.K)) + s.scale,
         digits |-> DropTrailingZeros(BnDigits(s.K))]

Zeros(n) == [i \in 1..n |-> 48]

\* the exponent of repr: a sign and two digits at least
ReprExponent(n) ==
    (IF n < 0 THEN <<101, 45>> ELSE <<101, 43>>)
        \o (IF n \in -9..9 THEN <<48>> ELSE <<>>) \o DigitsOf(IF n < 0 THEN -n ELSE n)

FormatRepr(ds, point) ==
    IF point > 16 \/ point < -3
    THEN <<ds[1]>> \o (IF Len(ds) > 1 THEN <<46>> \o Tail(ds) ELSE <<>>)
         \o ReprExponent(point - 1)
    ELSE IF point <= 0 THEN <<48, 46>> \o Zeros(-point) \o ds
    ELSE IF point >= Len(ds) THEN ds \o Zeros(point - Len(ds)) \o <<46, 48>>
    ELSE SubSeq(ds, 1, point) \o <<46>> \o SubSeq(ds, point + 1, Len(ds))

\* str(x) for a float
StrOfFloat(x) ==
    IF x.c = "nan" THEN NAN
    ELSE (IF x.neg THEN <<45>> ELSE <<>>)
         \o (IF x.c = "inf" THEN INF
             ELSE IF x.m = <<>> THEN <<48, 46, 48>>
             ELSE LET short == ReprDigits(x)
                  IN  FormatRepr(short.digits, short.point))

\* a float written in the source or in a cell: the float its text reads as
FloatLiteral(s) == float(s).value

\* "YYYY-MM-DD"
IsoDate(x) ==
    FixedDigits(x.year, 4) \o <<45>> \o FixedDigits(x.month, 2) \o <<45>>
        \o FixedDigits(x.day, 2)

\* ".ffffff" when there are microseconds
IsoMicroseconds(us) == IF us = 0 THEN <<>> ELSE <<46>> \o FixedDigits(us, 6)

\* "HH:MM:SS[.ffffff]"
IsoTime(x) ==
    FixedDigits(x.hour, 2) \o <<58>> \o FixedDigits(x.minute, 2) \o <<58>>
        \o FixedDigits(x.second, 2) \o IsoMicroseconds(x.microsecond)

\* str(x) for a timedelta: "[D day[s], ]H:MM:SS[.ffffff]"
StrOfTimeDelta(x) ==
    (IF x.days = 0 THEN <<>>
     ELSE StrOfInt(x.days) \o <<32, 100, 97, 121>>
          \o (IF x.days \in {1, -1} THEN <<>> ELSE <<115>>) \o <<44, 32>>)
    \o StrOfInt(x.seconds \div 3600) \o <<58>> \o FixedDigits((x.seconds \div 60) % 60, 2)
    \o <<58>> \o FixedDigits(x.seconds % 60, 2) \o IsoMicroseconds(x.microseconds)

\* str(n) for an int cell (of up to 4300 digits, the most CPython converts)
StrOfLong(n) ==
    (IF n.neg THEN <<45>> ELSE <<>>) \o (IF n.m = <<>> THEN <<48>> ELSE BnDigits(n.m))

\* str(value)
str(value) ==
    CASE value.t = "str" -> value.s
      [] value.t = "int" -> StrOfLong(value)
      [] value.t = "float" -> StrOfFloat(value)
      [] value.t = "bool" -> IF value.v THEN <<84, 114, 117, 101>> ELSE <<70, 97, 108, 115, 101>>
      [] value.t = "None" -> <<78, 111, 110, 101>>
      [] value.t = "datetime" -> IsoDate(value) \o <<32>> \o IsoTime(value)
      [] value.t = "date" -> IsoDate(value)
      [] value.t = "time" -> IsoTime(value)
      [] value.t = "timedelta" -> StrOfTimeDelta(value)

\* Python truthiness of a cell value (for `x or ""`): a float is false when it is 0.0
\* or -0.0, a timedelta when it is zero; a datetime, a date and a time are true
Truthy(value) ==
    CASE value.t = "None" -> FALSE
      [] value.t = "str" -> value.s # <<>>
      [] value.t = "int" -> value.m # <<>>
      [] value.t = "float" -> value.c # "finite" \/ value.m # <<>>
      [] value.t = "bool" -> value.v
      [] value.t = "timedelta" ->
            value.days # 0 \/ value.seconds # 0 \/ value.microseconds # 0
      [] OTHER -> TRUE

(***************************************************************************)
(* parse_european_number                                                   *)
(***************************************************************************)
\* Returns(the float), or OverflowError raised by float() of an int too large
parse_european_number(value) ==
    CASE value.t = "None" -> Returns(Zero(FALSE))
      [] value.t = "int" -> FloatOfInt(value)
      [] value.t = "float" -> Returns(value)
      [] value.t = "bool" -> FloatOfInt(PyInt(IF value.v THEN 1 ELSE 0))
      [] value.t = "str" ->
            IF startswith(value.s, <<61>>) THEN Returns(Zero(FALSE))
            ELSE LET parsed == float(replace(value.s, 44, 46))
                 IN  IF parsed.ok THEN parsed ELSE Returns(Zero(FALSE))
      [] OTHER -> Returns(Zero(FALSE))

(***************************************************************************)
(* load_xlsx_data                                                          *)
(***************************************************************************)
\* 0-indexed positions of the nine semantic columns
COLUMNS ==
    [legal_name |-> 0, brand_name |-> 1, acquirer |-> 2, currency |-> 5, amount |-> 6,
     fee |-> 8, psp_buy_fee |-> 11, type |-> 14, status |-> 15]

\* 0-indexed: row 16 is headers, data starts at 17
HEADER_ROW == 16

\* row[COLUMNS[name]] of a values_only row (a tuple, 0-indexed in the code)
Cell(row, name) == row[COLUMNS[name] + 1]

\* ws.iter_rows(min_row=HEADER_ROW + 2, values_only=True): min_row is 1-indexed
iter_rows(ws) == SubSeq(ws, HEADER_ROW + 2, Len(ws))

\* the tests with the Status cell held to the rule of the Type cell
RowSkipped_status_text_required(row) ==
    LET type_val == Cell(row, "type")
        status_val == Cell(row, "status")
    IN  \/ type_val.t # "str" \/ startswith(type_val.s, <<61>>)
        \/ status_val.t # "str" \/ startswith(status_val.s, <<61>>)

\* the type/status tests of the loop body: TRUE when the row is skipped (continue)
RowSkipped(row) ==
    LET type_val == Cell(row, "type")
        status_val == Cell(row, "status")
    IN  \/ type_val.t = "None" \/ status_val.t = "None"
        \/ (type_val.t = "str" /\ startswith(type_val.s, <<61>>))
        \/ type_val.t # "str"

\* str(row[...] or "")
StrOrEmpty(value) == IF Truthy(value) THEN str(value) ELSE <<>>

\* the dict appended for row, given what parse_european_number made of its amount, fee
\* and psp fee cells: the first of them that raised, else Returns(the dict)
Appended(row, amount, fee, psp_buy_fee) ==
    IF ~amount.ok THEN amount
    ELSE IF ~fee.ok THEN fee
    ELSE IF ~psp_buy_fee.ok THEN psp_buy_fee
    ELSE Returns(
        [legal_name |-> StrOrEmpty(Cell(row, "legal_name")),
         brand_name |-> StrOrEmpty(Cell(row, "brand_name")),
         acquirer |-> StrOrEmpty(Cell(row, "acquirer")),
         currency |-> StrOrEmpty(Cell(row, "currency")),
         amount |-> amount.value,
         fee |-> fee.value,
         psp_buy_fee |-> psp_buy_fee.value,
         type |-> strip(lower(Cell(row, "type").s)),
         status |-> IF Cell(row, "status").t = "str" THEN strip(lower(Cell(row, "status").s))
                    ELSE strip(lower(str(Cell(row, "status"))))])

\* the dict appended for a surviving row, its values evaluated in the order written;
\* parse_european_number may raise
RowRecord(row) ==
    Appended(row, parse_european_number(Cell(row, "amount")),
             parse_european_number(Cell(row, "fee")),
             parse_european_number(Cell(row, "psp_buy_fee")))

\* the list `data` after one more row: what that row raised, else what a later row
\* raised, else the row's dict before those of the later rows
Extended(record, rest) ==
    IF ~record.ok THEN record
    ELSE IF ~rest.ok THEN rest
    ELSE Returns(<<record.value>> \o rest.value)

\* the loop over the data rows: Returns(the list `data`), or what the first row that
\* raises raised
RECURSIVE LoadRows(_)
LoadRows(rows) ==
    IF rows = <<>> THEN Returns(<<>>)
    ELSE IF RowSkipped(Head(rows)) THEN LoadRows(Tail(rows))
    ELSE Extended(RowRecord(Head(rows)), LoadRows(Tail(rows)))

\* pd.DataFrame(data): a frame made from an empty list has no columns at all
DataFrame(data) == [t |-> "DataFrame", rows |-> data, columns |-> data # <<>>]

\* Return(the frame of the list `data`), or the exception the loop raised
FrameOf(data) == IF data.ok THEN Return(DataFrame(data.value)) ELSE data

\* Return(the frame), or the OverflowError of the first surviving row that raises
load_xlsx_data(ws) == FrameOf(LoadRows(iter_rows(ws)))

(***************************************************************************)
(* filter_by_operation_type.  A call returns [ok |-> TRUE, df |-> frame]   *)
(* or raises: [ok |-> FALSE, error |-> exception].  df["type"] on a frame  *)
(* without columns raises KeyError.                                        *)
(***************************************************************************)
purchase == <<112, 117, 114, 99, 104, 97, 115, 101>>

refund == <<114, 101, 102, 117, 110, 100>>

chargeback == <<99, 104, 97, 114, 103, 101, 98, 97, 99, 107>>

payout == <<112, 97, 121, 111, 117, 116>>

paid == <<112, 97, 105, 100>>

refunded == <<114, 101, 102, 117, 110, 100, 101, 100>>

chargedback == <<99, 104, 97, 114, 103, 101, 100, 98, 97, 99, 107>>

success == <<115, 117, 99, 99, 101, 115, 115>>

\* df[mask]: the rows where the mask holds (in order), with the frame's columns
Select(df, rows) == [df EXCEPT !.rows = rows]

\* the filter with an unknown operation code passed through unfiltered
filter_by_operation_type_lenient(df, op_type) ==
    IF op_type \notin {1, 2, 3, 4} THEN Return(df)
    ELSE IF ~df.columns THEN Raise("KeyError")
    ELSE Return(Select(df, SelectSeq(df.rows, LAMBDA r :
            \/ op_type = 1 /\ r.type = purchase /\ r.status \in {paid, refunded, chargedback}
            \/ op_type = 2 /\ r.type = refund /\ r.status = success
            \/ op_type = 3 /\ r.type = chargeback /\ r.status = success
            \/ op_type = 4 /\ r.type = payout /\ r.status = success)))

filter_by_operation_type(df, op_type) ==
    IF op_type = 1 THEN
        IF ~df.columns THEN Raise("KeyError")
        ELSE Return(Select(df, SelectSeq(df.rows,
                LAMBDA r : r.type = purchase /\ r.status \in {paid, refunded, chargedback})))
    ELSE IF op_type = 2 THEN
        IF ~df.columns THEN Raise("KeyError")
        ELSE Return(Select(df, SelectSeq(df.rows,
                LAMBDA r : r.type = refund /\ r.status = success)))
    ELSE IF op_type = 3 THEN
        IF ~df.columns THEN Raise("KeyError")
        ELSE Return(Select(df, SelectSeq(df.rows,
                LAMBDA r : r.type = chargeback /\ r.status = success)))
    ELSE IF op_type = 4 THEN
        IF ~df.columns THEN Raise("KeyError")
        ELSE Return(Select(df, SelectSeq(df.rows,
                LAMBDA r : r.type = payout /\ r.status = success)))
    ELSE Raise("ValueError")

(***************************************************************************)
(* Pivot builders.                                                         *)
(***************************************************************************)
\* a compensation that came out nan restarts at 0
KahanComp(c) == IF isnan(c) THEN Zero(FALSE) ELSE c

\* the running sum t and the compensation (t - sumx) - y
KahanNext(sumx, y, t) == [sumx |-> t, comp |-> KahanComp(fsub(fsub(t, sumx), y))]

\* t = sumx + y
KahanAdd(sumx, y) == KahanNext(sumx, y, fadd(sumx, y))

\* one step of the compensated (Kahan) sum of pandas' group_sum: the running sum and
\* the compensation after val, from acc; a nan value is skipped, and y = val - comp
KahanStep(acc, val) ==
    IF isnan(val) THEN acc ELSE KahanAdd(acc.sumx, fsub(val, acc.comp))

\* the running sum and compensation after each of the values, from acc
RECURSIVE KahanSums(_, _)
KahanSums(values, acc) ==
    IF Len(values) = 1 THEN <<KahanStep(acc, values[1])>>
    ELSE LET low == KahanSums(LowHalf(values), acc)
         IN  low \o KahanSums(HighHalf(values), low[Len(low)])

\* groupby(...).agg("sum") of the values of one group, in row order
group_sum(values) ==
    IF values = <<>> THEN Zero(FALSE)
    ELSE KahanSums(values, [sumx |-> Zero(FALSE), comp |-> Zero(FALSE)])[Len(values)].sumx

\* groupby(...).agg("count"): the values that are not nan
group_count(values) == Cardinality({i \in 1..Len(values) : ~isnan(values[i])})

\* res += a[i] for i from lo to hi, from res
RECURSIVE AddLoop(_, _, _, _)
AddLoop(res, a, lo, hi) ==
    IF hi < lo THEN res ELSE fadd(AddLoop(res, a, lo, hi - 1), a[hi])

\* the eight running sums of numpy's unrolled loop over the first 8 * k values
RECURSIVE Unrolled(_, _)
Unrolled(a, k) ==
    IF k = 1 THEN SubSeq(a, 1, 8)
    ELSE LET r == Unrolled(a, k - 1)
         IN  [j \in 1..8 |-> fadd(r[j], a[8 * (k - 1) + j])]

\* the sum of 2^k values by halves: ((r1 + r2) + (r3 + r4)) + ((r5 + r6) + (r7 + r8))
RECURSIVE HalvesSum(_)
HalvesSum(r) ==
    IF Len(r) = 1 THEN r[1] ELSE fadd(HalvesSum(LowHalf(r)), HalvesSum(HighHalf(r)))

\* numpy's pairwise_sum: a plain loop from -0.0 below 8 values; up to 128 values the
\* eight running sums, added by halves, and then the values left over; above 128 values
\* the sum of the two parts, the first of 8 * (n div 16) values
RECURSIVE pairwise_sum(_)
pairwise_sum(a) ==
    IF Len(a) <= 128
    THEN AddLoop(IF Len(a) < 8 THEN Zero(TRUE) ELSE HalvesSum(Unrolled(a, Len(a) \div 8)),
                 a, 8 * (Len(a) \div 8) + 1, Len(a))
    ELSE HalvesSum(<<pairwise_sum(SubSeq(a, 1, 8 * (Len(a) \div 16))),
                     pairwise_sum(SubSeq(a, 8 * (Len(a) \div 16) + 1, Len(a)))>>)

\* Series.sum() of a float column: nan counts as 0.0, then numpy's add.reduce from 0.0
series_sum(values) ==
    fadd(Zero(FALSE),
         pairwise_sum([i \in 1..Len(values) |-> IF isnan(values[i]) THEN Zero(FALSE)
                                               ELSE values[i]]))

\* Series.sum() of the count column
RECURSIVE count_sum(_)
count_sum(grouped) ==
    IF grouped = <<>> THEN 0 ELSE grouped[1].count + count_sum(Tail(grouped))

\* Series.unique(): the distinct values in order of first appearance
RECURSIVE unique(_)
unique(values) ==
    IF values = <<>> THEN <<>>
    ELSE LET init == unique(SubSeq(values, 1, Len(values) - 1))
             last == values[Len(values)]
         IN  IF \E i \in 1..Len(init) : init[i] = last THEN init ELSE Append(init, last)

Column(rows, col) == [i \in 1..Len(rows) |-> rows[i][col]]

\* a < b for key tuples of equal length: lexicographic, each part compared as str
RECURSIVE KeyLess(_, _)
KeyLess(a, b) ==
    IF a = <<>> THEN FALSE
    ELSE IF a[1] # b[1] THEN StrLess(a[1], b[1])
    ELSE KeyLess(Tail(a), Tail(b))

\* the keys of a set in ascending order
RECURSIVE SortKeys(_)
SortKeys(S) ==
    IF S = {} THEN <<>>
    ELSE LET m == CHOOSE x \in S : \A y \in S \ {x} : KeyLess(x, y)
         IN  <<m>> \o SortKeys(S \ {m})

\* sorted(values.unique()): the distinct values of a column in ascending str order
Ascending(values) ==
    LET keys == SortKeys({<<values[i]>> : i \in 1..Len(values)})
    IN  [i \in 1..Len(keys) |-> keys[i][1]]

\* the aggregated row of one key of groupby([k1, k2, "currency"]).agg(...)
GroupRow(rows, k1, k2, key) ==
    LET members == SelectSeq(rows, LAMBDA r : <<r[k1], r[k2], r.currency>> = key)
    IN  [legal_name |-> IF k1 = "legal_name" THEN key[1] ELSE key[2],
         acquirer |-> IF k1 = "acquirer" THEN key[1] ELSE key[2],
         currency |-> key[3],
         amount |-> group_sum(Column(members, "amount")),
         fee |-> group_sum(Column(members, "fee")),
         psp_buy_fee |-> group_sum(Column(members, "psp_buy_fee")),
         count |-> group_count(Column(members, "amount"))]

\* df.groupby([k1, k2, "currency"]).agg(sum, sum, sum, count).reset_index():
\* groupby sorts the group keys (sort=True is the default)
groupby_agg(rows, k1, k2) ==
    LET keys == SortKeys({<<rows[i][k1], rows[i][k2], rows[i].currency>> : i \in 1..Len(rows)})
    IN  [i \in 1..Len(keys) |-> GroupRow(rows, k1, k2, keys[i])]

\* the sums taken over values already rounded to cents
Subtotals_rounded_before_sum(grouped) ==
    [amount |-> series_sum([i \in 1..Len(grouped) |-> np_round2(grouped[i].amount)]),
     fee |-> series_sum([i \in 1..Len(grouped) |-> np_round2(grouped[i].fee)]),
     psp_buy_fee |-> series_sum([i \in 1..Len(grouped) |-> np_round2(grouped[i].psp_buy_fee)]),
     count |-> count_sum(grouped)]

\* the rounded sums and the count of a slice of the grouped frame: round(x, 2) of the
\* numpy.float64 that Series.sum() returns
Subtotals(grouped) ==
    [amount |-> np_round2(series_sum(Column(grouped, "amount"))),
     fee |-> np_round2(series_sum(Column(grouped, "fee"))),
     psp_buy_fee |-> np_round2(series_sum(Column(grouped, "psp_buy_fee"))),
     count |-> count_sum(grouped)]

\* one entry of "currencies": a row of the grouped frame from iterrows(), whose values
\* are Python floats, rounded by round(x, 2)
CurrencyLeaf(row) ==
    [currency |-> row.currency,
     amount |-> py_round2(row.amount),
     fee |-> py_round2(row.fee),
     psp_buy_fee |-> py_round2(row.psp_buy_fee),
     count |-> row.count]

\* the tree for an empty frame: its zeros are ints
EmptyPivot == [groups |-> <<>>, totals |-> [amount |-> 0, fee |-> 0, psp_buy_fee |-> 0, count |-> 0]]

\* merchant_group: the rows of one legal_name in the slice of an acquirer
merchant_of_acquirer(merchant_data, legal_name) ==
    [legal_name |-> legal_name,
     currencies |-> [i \in 1..Len(merchant_data) |-> CurrencyLeaf(merchant_data[i])],
     subtotals |-> Subtotals(merchant_data)]

\* the loop over acq_data["legal_name"].unique()
merchants_of_acquirer(acq_data, legal_names) ==
    [i \in 1..Len(legal_names) |->
        merchant_of_acquirer(SelectSeq(acq_data, LAMBDA g : g.legal_name = legal_names[i]),
                             legal_names[i])]

\* acq_group: the rows of one acquirer in the grouped frame
acquirer_group(acq_data, acquirer) ==
    [acquirer |-> acquirer,
     subtotals |-> Subtotals(acq_data),
     merchants |-> merchants_of_acquirer(acq_data, unique(Column(acq_data, "legal_name")))]

\* the loop over grouped["acquirer"].unique()
acquirer_groups(grouped, acquirers) ==
    [i \in 1..Len(acquirers) |->
        acquirer_group(SelectSeq(grouped, LAMBDA g : g.acquirer = acquirers[i]), acquirers[i])]

\* result: the groups and the totals of the grouped frame
pivot_by_acquirer(grouped) ==
    [groups |-> acquirer_groups(grouped, unique(Column(grouped, "acquirer"))),
     totals |-> Subtotals(grouped)]

build_pivot_by_acquirer(df) ==
    IF df.rows = <<>> THEN EmptyPivot
    ELSE pivot_by_acquirer(groupby_agg(df.rows, "acquirer", "legal_name"))

\* acq_group: the rows of one acquirer in the slice of a merchant
acquirer_of_merchant(acq_data, acquirer) ==
    [acquirer |-> acquirer,
     currencies |-> [i \in 1..Len(acq_data) |-> CurrencyLeaf(acq_data[i])],
     subtotals |-> Subtotals(acq_data)]

\* the loop over merchant_data["acquirer"].unique()
acquirers_of_merchant(merchant_data, acquirers) ==
    [i \in 1..Len(acquirers) |->
        acquirer_of_merchant(SelectSeq(merchant_data, LAMBDA g : g.acquirer = acquirers[i]),
                             acquirers[i])]

\* merchant_group: the rows of one legal_name in the grouped frame
merchant_group(merchant_data, legal_name) ==
    [legal_name |-> legal_name,
     subtotals |-> Subtotals(merchant_data),
     acquirers |-> acquirers_of_merchant(merchant_data, unique(Column(merchant_data, "acquirer")))]

\* the loop over grouped["legal_name"].unique()
merchant_groups(grouped, legal_names) ==
    [i \in 1..Len(legal_names) |->
        merchant_group(SelectSeq(grouped, LAMBDA g : g.legal_name = legal_names[i]),
                       legal_names[i])]

\* result: the groups and the totals of the grouped frame
pivot_by_merchant(grouped) ==
    [groups |-> merchant_groups(grouped, unique(Column(grouped, "legal_name"))),
     totals |-> Subtotals(grouped)]

build_pivot_by_merchant(df) ==
    IF df.rows = <<>> THEN EmptyPivot
    ELSE pivot_by_merchant(groupby_agg(df.rows, "legal_name", "acquirer"))

\* ---- pure-function harness: one call, one result ----
Idle == [fn |-> "idle"]

\* a record of a filtered frame: a purchase that was paid
PivotRecord(acq, legal, cur, amt, fee, psp) ==
    [legal_name |-> legal, brand_name |-> <<>>, acquirer |-> acq, currency |-> cur,
     amount |-> amt, fee |-> fee, psp_buy_fee |-> psp, type |-> purchase, status |-> paid]

\* acquirer "B", merchant "M2", "USD": 0.005, 0.025, 2.675
\* acquirer "B", merchant "M2", "EUR": 0.004, 0.004, 1.015
\* acquirer "B", merchant "M1", "USD": 1e16, 0.015, 1e308
\* acquirer "B", merchant "M1", "USD": 1.0, 0.004, 0.3
\* acquirer "A", merchant "M1", "EUR": 1.006, 1e307, 1e308
\* acquirer "A", merchant "M1", "EUR": nan, inf, -inf (the cells "nan", "inf", "-inf")
PivotRecords ==
    {PivotRecord(<<66>>, <<77, 50>>, <<85, 83, 68>>, FloatLiteral(<<48, 46, 48, 48, 53>>), FloatLiteral(<<48, 46, 48, 50, 53>>), FloatLiteral(<<50, 46, 54, 55, 53>>)),
     PivotRecord(<<66>>, <<77, 50>>, <<69, 85, 82>>, FloatLiteral(<<48, 46, 48, 48, 52>>), FloatLiteral(<<48, 46, 48, 48, 52>>), FloatLiteral(<<49, 46, 48, 49, 53>>)),
     PivotRecord(<<66>>, <<77, 49>>, <<85, 83, 68>>, FloatLiteral(<<49, 101, 49, 54>>), FloatLiteral(<<48, 46, 48, 49, 53>>), FloatLiteral(<<49, 101, 51, 48, 56>>)),
     PivotRecord(<<66>>, <<77, 49>>, <<85, 83, 68>>, FloatLiteral(<<49, 46, 48>>), FloatLiteral(<<48, 46, 48, 48, 52>>), FloatLiteral(<<48, 46, 51>>)),
     PivotRecord(<<65>>, <<77, 49>>, <<69, 85, 82>>, FloatLiteral(<<49, 46, 48, 48, 54>>), FloatLiteral(<<49, 101, 51, 48, 55>>), FloatLiteral(<<49, 101, 51, 48, 56>>)),
     PivotRecord(<<65>>, <<77, 49>>, <<69, 85, 82>>, NaN, Inf(FALSE), Inf(TRUE))}

SeqsUpTo(S, n) == UNION {[1..k -> S] : k \in 0..n}

\* the sequences of up to n different elements of S
DistinctSeqsUpTo(S, n) ==
    {q \in SeqsUpTo(S, n) : \A i, j \in 1..Len(q) : q[i] = q[j] => i = j}

ServiceIdle ==
    /\ DATA_STORE = [df |-> None, filename |-> None]
    /\ response = Idle
    /\ everLoaded = FALSE

PivotInit ==
    /\ ServiceIdle
    /\ \E rows \in DistinctSeqsUpTo(PivotRecords, MaxPivotRows) :
            call = [df |-> [t |-> "DataFrame", rows |-> rows, columns |-> TRUE], fn |-> "build_pivot"]
    /\ result = Idle

ApplyPivotByAcquirer ==
    /\ call.fn = "build_pivot" /\ result = Idle
    /\ result' = [view |-> 1, pivot |-> build_pivot_by_acquirer(call.df)]
    /\ UNCHANGED <<DATA_STORE, response, everLoaded, call>>

ApplyPivotByMerchant ==
    /\ call.fn = "build_pivot" /\ result = Idle
    /\ result' = [view |-> 2, pivot |-> build_pivot_by_merchant(call.df)]
    /\ UNCHANGED <<DATA_STORE, response, everLoaded, call>>

PivotNext == ApplyPivotByAcquirer \/ ApplyPivotByMerchant

PivotSpec == PivotInit /\ [][PivotNext]_vars

(***************************************************************************)
(* Reading a pivot tree by level, for either view.                         *)
(***************************************************************************)
Key1Name(view) == IF view = 1 THEN "acquirer" ELSE "legal_name"

Key2Name(view) == IF view = 1 THEN "legal_name" ELSE "acquirer"

\* the level-2 groups of a level-1 group
Children(g, view) == IF view = 1 THEN g.merchants ELSE g.acquirers

\* the input records under a level-1 key, and under a level-1/level-2 key pair
Under1(rows, view, k1) == SelectSeq(rows, LAMBDA r : r[Key1Name(view)] = k1)

Under2(rows, view, k1, k2) ==
    SelectSeq(rows, LAMBDA r : r[Key1Name(view)] = k1 /\ r[Key2Name(view)] = k2)

Under3(rows, view, k1, k2, cur) ==
    SelectSeq(rows, LAMBDA r : r[Key1Name(view)] = k1 /\ r[Key2Name(view)] = k2
                               /\ r.currency = cur)

\* every level of the tree lists exactly the keys Keys(...) gives for it, in that order
LevelsListed(tree, view, rows, Keys(_)) ==
    /\ Column(tree.groups, Key1Name(view)) = Keys(Column(rows, Key1Name(view)))
    /\ \A i \in 1..Len(tree.groups) :
        LET g == tree.groups[i]
            k1 == g[Key1Name(view)]
        IN  /\ Column(Children(g, view), Key2Name(view))
                 = Keys(Column(Under1(rows, view, k1), Key2Name(view)))
            /\ \A j \in 1..Len(Children(g, view)) :
                LET h == Children(g, view)[j]
                    k2 == h[Key2Name(view)]
                IN  Column(h.currencies, "currency")
                        = Keys(Column(Under2(rows, view, k1, k2), "currency"))

PivotDone == call.fn = "build_pivot" /\ result # Idle

\* C2 as stated: at every level of either pivot tree the groups are listed in the
\* order in which each distinct key first appears in the filtered input records.
C2_GroupsInFirstAppearanceOrder ==
    PivotDone => LevelsListed(result.pivot, result.view, call.df.rows, unique)

\* a by-acquirer tree with keys that first appear in descending order at each of its three
\* levels: two acquirers, two merchants under one acquirer, two currencies under one
\* merchant of that acquirer
C2_Witness ==
    /\ PivotDone /\ result.view = 1
    /\ LET rows == call.df.rows
           k1s == unique(Column(rows, "acquirer"))
       IN  /\ Len(k1s) = 2 /\ StrLess(k1s[2], k1s[1])
           /\ Column(result.pivot.groups, "acquirer") = <<k1s[2], k1s[1]>>
           /\ \E i \in 1..Len(result.pivot.groups) :
                LET g == result.pivot.groups[i]
                    k2s == unique(Column(Under1(rows, 1, g.acquirer), "legal_name"))
                IN  /\ Len(k2s) = 2 /\ StrLess(k2s[2], k2s[1])
                    /\ Column(g.merchants, "legal_name") = <<k2s[2], k2s[1]>>
                    /\ \E j \in 1..Len(g.merchants) :
                        LET h == g.merchants[j]
                            curs == unique(Column(Under2(rows, 1, g.acquirer, h.legal_name),
                                                  "currency"))
                        IN  /\ Len(curs) = 2 /\ StrLess(curs[2], curs[1])
                            /\ Column(h.currencies, "currency") = <<curs[2], curs[1]>>

MoneyFields == {"amount", "fee", "psp_buy_fee"}

(***************************************************************************)
(* Real numbers (-1)^neg * M * 2^E, added and compared without rounding,   *)
(* to state how far the reported floats are from what they stand for.      *)
(***************************************************************************)
Exact(neg, M, E) == [neg |-> neg, E |-> E, M |-> M]

\* the value of a finite float
ExactOf(x) == Exact(x.neg, x.m, x.e)

ExactNeg(a) == [a EXCEPT !.neg = ~a.neg]

ExactAdd(a, b) ==
    LET low == Min(a.E, b.E)
        Ma == BnShl(a.M, a.E - low)
        Mb == BnShl(b.M, b.E - low)
    IN  IF a.neg = b.neg THEN Exact(a.neg, BnAdd(Ma, Mb), low)
        ELSE IF BnCmp(Ma, Mb) >= 0 THEN Exact(a.neg, BnSub(Ma, Mb), low)
        ELSE Exact(b.neg, BnSub(Mb, Ma), low)

ExactEqual(a, b) == ExactAdd(a, ExactNeg(b)).M = <<>>

\* a times k, for 0 <= k < 32768
ExactTimes(a, k) == Exact(a.neg, BnMul3(a.M, k, 0), a.E)

\* a * 2^n
ExactScale(a, n) == Exact(a.neg, a.M, a.E + n)

\* |a|
ExactAbs(a) == Exact(FALSE, a.M, a.E)

\* a <= num / den, for 1 <= den < 32768
AtMost(a, num, den) ==
    \/ a.neg \/ a.M = <<>>
    \/ IF a.E >= 0 THEN BnCmp(BnMul3(BnShl(a.M, a.E), den, 0), BnOfInt(num)) <= 0
       ELSE BnCmp(BnMul3(a.M, den, 0), BnShl(BnOfInt(num), -a.E)) <= 0

\* |a - b| <= num / den + slack
Within(a, b, num, den, slack) ==
    AtMost(ExactAdd(ExactAbs(ExactAdd(a, ExactNeg(b))), ExactNeg(slack)), num, den)

\* the exact sum of finite floats
RECURSIVE ExactSum(_)
ExactSum(values) ==
    IF values = <<>> THEN Exact(FALSE, <<>>, 0)
    ELSE ExactAdd(ExactSum(Front(values)), ExactOf(values[Len(values)]))

\* the exact sum of the absolute values of finite floats
RECURSIVE ExactAbsSum(_)
ExactAbsSum(values) ==
    IF values = <<>> THEN Exact(FALSE, <<>>, 0)
    ELSE ExactAdd(ExactAbsSum(Front(values)), ExactAbs(ExactOf(values[Len(values)])))

\* every value of field f in a list of nodes is a finite number
FieldFinite(nodes, f) == \A i \in 1..Len(nodes) : nodes[i][f].c = "finite"

\* the exact sum of the values of one field over a list of nodes (leaves, subtotals of
\* groups, or input records)
NodeSum(nodes, f) == ExactSum(Column(nodes, f))

SubtotalsOf(groups) == [i \in 1..Len(groups) |-> groups[i].subtotals]

\* all leaves of the tree
AllLeaves(tree, view) ==
    LET RECURSIVE Cat(_)
        Cat(ss) == IF ss = <<>> THEN <<>> ELSE Head(ss) \o Cat(Tail(ss))
        leavesOf(g) == Cat([j \in 1..Len(Children(g, view)) |-> Children(g, view)[j].currencies])
    IN  Cat([i \in 1..Len(tree.groups) |-> leavesOf(tree.groups[i])])

\* the reported values of money field f add up exactly at every level
RollsUp(tree, view, f) ==
    /\ ExactEqual(ExactOf(tree.totals[f]), NodeSum(SubtotalsOf(tree.groups), f))
    /\ ExactEqual(ExactOf(tree.totals[f]), NodeSum(AllLeaves(tree, view), f))
    /\ \A i \in 1..Len(tree.groups) :
        LET g == tree.groups[i]
        IN  /\ ExactEqual(ExactOf(g.subtotals[f]), NodeSum(SubtotalsOf(Children(g, view)), f))
            /\ \A j \in 1..Len(Children(g, view)) :
                LET h == Children(g, view)[j]
                IN  ExactEqual(ExactOf(h.subtotals[f]), NodeSum(h.currencies, f))

\* the reported counts add up at every level
CountsRollUp(tree, view) ==
    /\ tree.totals.count = count_sum(SubtotalsOf(tree.groups))
    /\ tree.totals.count = count_sum(AllLeaves(tree, view))
    /\ \A i \in 1..Len(tree.groups) :
        LET g == tree.groups[i]
        IN  /\ g.subtotals.count = count_sum(SubtotalsOf(Children(g, view)))
            /\ \A j \in 1..Len(Children(g, view)) :
                LET h == Children(g, view)[j]
                IN  h.subtotals.count = count_sum(h.currencies)

\* every value the tree reports for field f is a finite number: no sum and no rounding
\* overflowed
ReportedFinite(tree, view, f) ==
    /\ tree.totals[f].c = "finite"
    /\ FieldFinite(SubtotalsOf(tree.groups), f)
    /\ FieldFinite(AllLeaves(tree, view), f)
    /\ \A i \in 1..Len(tree.groups) : FieldFinite(SubtotalsOf(Children(tree.groups[i], view)), f)

\* the float error allowed for a node over n records whose absolute values sum to A:
\* (n + 2) * 2^-50 * (A + 1)
FloatSlack(rows, f) ==
    ExactScale(ExactTimes(ExactAdd(ExactAbsSum(Column(rows, f)), Exact(FALSE, <<1>>, 0)),
                          Len(rows) + 2), -50)

\* a reported value is within half a cent, plus the float error, of the exact sum of the
\* records it stands for
Near(reported, rows, f) ==
    Within(ExactOf(reported), NodeSum(rows, f), 5, 1000, FloatSlack(rows, f))

\* every reported value of field f is that near the exact sum of the records under its node
ReportsNearExactSums(tree, view, rows, f) ==
    /\ Near(tree.totals[f], rows, f)
    /\ \A i \in 1..Len(tree.groups) :
        LET g == tree.groups[i]
            k1 == g[Key1Name(view)]
        IN  /\ Near(g.subtotals[f], Under1(rows, view, k1), f)
            /\ \A j \in 1..Len(Children(g, view)) :
                LET h == Children(g, view)[j]
                    k2 == h[Key2Name(view)]
                IN  /\ Near(h.subtotals[f], Under2(rows, view, k1, k2), f)
                    /\ \A n \in 1..Len(h.currencies) :
                        Near(h.currencies[n][f],
                             Under3(rows, view, k1, k2, h.currencies[n].currency), f)

\* a parent's reported value is within half a cent plus the parent's float error, once for
\* each child and once more, of the exact sum of its children's reported values; rows are
\* the records under the parent
NearRollUp(parent, children, rows, f) ==
    Within(ExactOf(parent[f]), NodeSum(children, f), 5 * (Len(children) + 1), 1000,
           ExactTimes(FloatSlack(rows, f), Len(children) + 1))

\* the parents of field f are that near their children at every level
NearRollUps(tree, view, rows, f) ==
    /\ NearRollUp(tree.totals, SubtotalsOf(tree.groups), rows, f)
    /\ NearRollUp(tree.totals, AllLeaves(tree, view), rows, f)
    /\ \A i \in 1..Len(tree.groups) :
        LET g == tree.groups[i]
            k1 == g[Key1Name(view)]
        IN  /\ NearRollUp(g.subtotals, SubtotalsOf(Children(g, view)),
                          Under1(rows, view, k1), f)
            /\ \A j \in 1..Len(Children(g, view)) :
                LET h == Children(g, view)[j]
                IN  NearRollUp(h.subtotals, h.currencies,
                               Under2(rows, view, k1, h[Key2Name(view)]), f)

\* C3 as stated: the counts and the reported (rounded) monetary values roll up exactly at
\* every level of either pivot tree (the money of a field whose input values and
\* reported values are all finite).
C3_ReportedValuesRollUp ==
    PivotDone =>
        IF call.df.rows = <<>> THEN result.pivot = EmptyPivot
        ELSE /\ CountsRollUp(result.pivot, result.view)
             /\ \A f \in MoneyFields :
                    (FieldFinite(call.df.rows, f) /\ ReportedFinite(result.pivot, result.view, f))
                        => RollsUp(result.pivot, result.view, f)

\* C3 amended: the counts roll up exactly at every level, the grand total count being
\* the number of records whose amount is not nan.  The money values are floats, each node
\* summed from the unrounded values under it and rounded on its own (the leaves with
\* Python's round, the subtotals and the grand total with numpy's): for a field whose
\* input values are finite and whose reported values are finite (nothing overflowed),
\* every reported value is within 0.005 + (n + 2) * 2^-50 * (A + 1) of the exact sum of
\* the n records under its node, A being the sum of their absolute values; and a reported
\* parent need not equal the sum of its k reported children: it is within k + 1 times
\* that bound of it.
C3_ExactSumsRollUpRoundedAtOutput ==
    PivotDone =>
        LET tree == result.pivot
            view == result.view
            rows == call.df.rows
        IN  IF rows = <<>> THEN tree = EmptyPivot
            ELSE /\ CountsRollUp(tree, view)
                 /\ tree.totals.count = Len(SelectSeq(rows, LAMBDA r : ~isnan(r.amount)))
                 /\ \A f \in MoneyFields :
                        (FieldFinite(rows, f) /\ ReportedFinite(tree, view, f)) =>
                            /\ ReportsNearExactSums(tree, view, rows, f)
                            /\ NearRollUps(tree, view, rows, f)

\* a by-acquirer tree over finite amounts that reports finite amounts, with a level-1 group
\* of two level-2 groups: one has a single leaf, for an amount of 0.005, that reports 0.01
\* in the leaf and 0.0 in the subtotal above it; the other has a leaf for the amounts 1e16
\* and 1.0 that reports 1e16, 1 less than their exact sum
C3_Witness ==
    /\ PivotDone /\ result.view = 1 /\ call.df.rows # <<>>
    /\ FieldFinite(call.df.rows, "amount")
    /\ ReportedFinite(result.pivot, 1, "amount")
    /\ \E i \in 1..Len(result.pivot.groups) :
        LET g == result.pivot.groups[i]
        IN  /\ Len(g.merchants) = 2
            /\ \E j \in 1..2 :
                /\ Len(g.merchants[j].currencies) = 1
                /\ g.merchants[j].currencies[1].amount = FloatLiteral(<<48, 46, 48, 49>>)
                /\ g.merchants[j].subtotals.amount = Zero(FALSE)
            /\ \E j \in 1..2 :
                /\ Len(g.merchants[j].currencies) = 1
                /\ g.merchants[j].currencies[1].count = 2
                /\ g.merchants[j].currencies[1].amount = FloatLiteral(<<49, 101, 49, 54>>)
                /\ ~Within(ExactOf(g.merchants[j].currencies[1].amount),
                           NodeSum(Under2(call.df.rows, 1, g.acquirer,
                                          g.merchants[j].legal_name), "amount"),
                           1, 2, Exact(FALSE, <<>>, 0))

(***************************************************************************)
(* parse_european_number on its own.                                       *)
(***************************************************************************)
\* '1' '5' ',' '.' '=' '-' ' ' 'x' 'e' '_'
TextAlphabet == {49, 53, 44, 46, 61, 45, 32, 120, 101, 95}

\* "1.234,56", "=A1+B2", " 1,5 ", "12,50", "0,004", "1.234.56", "1e3", "inf", "-inf",
\* "nan", "Infinity", "1_000", "1__0", FS "1", NBSP "1,5" NBSP, "1,5" in Arabic-Indic
\* digits, "1e400", "1e-400", "0,1", "2,675", "-0,0"
NamedTexts ==
    {<<49, 46, 50, 51, 52, 44, 53, 54>>,
     <<61, 65, 49, 43, 66, 50>>,
     <<32, 49, 44, 53, 32>>,
     <<49, 50, 44, 53, 48>>,
     <<48, 44, 48, 48, 52>>,
     <<49, 46, 50, 51, 52, 46, 53, 54>>,
     <<49, 101, 51>>,
     <<105, 110, 102>>,
     <<45, 105, 110, 102>>,
     <<110, 97, 110>>,
     <<73, 110, 102, 105, 110, 105, 116, 121>>,
     <<49, 95, 48, 48, 48>>,
     <<49, 95, 95, 48>>,
     <<28, 49>>,
     <<160, 49, 44, 53, 160>>,
     <<1633, 44, 1637>>,
     <<49, 101, 52, 48, 48>>,
     <<49, 101, 45, 52, 48, 48>>,
     <<48, 44, 49>>,
     <<50, 44, 54, 55, 53>>,
     <<45, 48, 44, 48>>}

\* None, 0, 5, -3, 2^53 + 1, 2^1023, 2^1024 - 2^970 - 1, 2^1024 - 2^970, -2^1024, 1.5,
\* -0.004, -0.0, inf, nan, True, a datetime, a zero timedelta, and the texts
NumberCells ==
    {None, PyInt(0), PyInt(5), PyInt(-3), PyLong(FALSE, BnAdd(BnShl(<<1>>, 53), <<1>>)),
     PyLong(FALSE, BnShl(<<1>>, 1023)),
     PyLong(FALSE, BnSub(BnSub(BnShl(<<1>>, 1024), BnShl(<<1>>, 970)), <<1>>)),
     PyLong(FALSE, BnSub(BnShl(<<1>>, 1024), BnShl(<<1>>, 970))),
     PyLong(TRUE, BnShl(<<1>>, 1024)),
     FloatLiteral(<<49, 46, 53>>), FloatLiteral(<<45, 48, 46, 48, 48, 52>>), Zero(TRUE), Inf(FALSE), NaN, PyBool(TRUE),
     PyDateTime(2024, 1, 1, 0, 0, 0, 0), PyTimeDelta(0, 0, 0)}
    \cup {PyStr(s) : s \in SeqsUpTo(TextAlphabet, MaxTextLen) \cup NamedTexts}

NumberInit ==
    /\ ServiceIdle
    /\ \E value \in NumberCells : call = [value |-> value, fn |-> "parse_european_number"]
    /\ result = Idle

ApplyParseNumber ==
    /\ call.fn = "parse_european_number" /\ result = Idle
    /\ result' = parse_european_number(call.value)
    /\ UNCHANGED <<DATA_STORE, response, everLoaded, call>>

NumberNext == ApplyParseNumber

NumberSpec == NumberInit /\ [][NumberNext]_vars

NumberDone == call.fn = "parse_european_number" /\ result # Idle

AllDigits(s) == s # <<>> /\ \A i \in 1..Len(s) : IsDigit(s[i])

\* digits, or groups of three digits set off by periods after a first group of one to three
ThousandsGrouped(s) ==
    \/ AllDigits(s)
    \/ \E first \in 1..3 :
        /\ Len(s) > first /\ (Len(s) - first) % 4 = 0
        /\ \A i \in 1..Len(s) :
            IF i > first /\ (i - first) % 4 = 1 THEN s[i] = 46 ELSE IsDigit(s[i])

\* decimal text with a comma as decimal separator: [sign] integer part , digits
IsCommaDecimal(s) ==
    LET u == Unsigned(CStrip(s))
        commas == {i \in 1..Len(u) : u[i] = 44}
    IN  /\ Cardinality(commas) = 1
        /\ LET p == CHOOSE i \in commas : TRUE
           IN  ThousandsGrouped(SubSeq(u, 1, p - 1)) /\ AllDigits(SubSeq(u, p + 1, Len(u)))

\* the float nearest to the number such a text writes: the periods are separators, the
\* comma the decimal point
WrittenValue(s) ==
    LET u == Unsigned(CStrip(s))
        p == CHOOSE i \in 1..Len(u) : u[i] = 44
    IN  DecimalToDouble(IsNegative(CStrip(s)), BnOfDigits(SelectSeq(u, IsDigit)), p - Len(u))

\* C6 as stated: parse_european_number never raises; an absent cell gives 0, a numeric
\* cell its own value (an int the float nearest to it), text beginning with '=' gives 0, comma-decimal text gives the
\* written number also when it carries periods as thousands separators ("1.234,56" gives
\* 1234.56), any other unparseable text gives 0.
C6_ParsesEuropeanNumbers ==
    NumberDone =>
        LET value == call.value
        IN  /\ result.ok
            /\ value.t = "None" => result.value = Zero(FALSE)
            /\ value.t = "int" => result.value = MakeDouble(value.neg, value.m, 0, FALSE)
            /\ value.t = "float" => result.value = value
            /\ (value.t = "str" /\ startswith(value.s, <<61>>)) => result.value = Zero(FALSE)
            /\ (value.t = "str" /\ IsCommaDecimal(value.s)) =>
                    result.value = WrittenValue(value.s)
            /\ (value.t = "str" /\ ~startswith(value.s, <<61>>) /\ ~IsCommaDecimal(value.s)
                    /\ ~float(replace(value.s, 44, 46)).ok) => result.value = Zero(FALSE)

(***************************************************************************)
(* load_xlsx_data on its own.                                              *)
(***************************************************************************)
Blank == None

\* a values_only row of sixteen cells with the nine semantic cells set
Row(legal, brand, acq, cur, amount, fee, psp, type, status) ==
    <<legal, brand, acq, Blank, Blank, cur, amount, Blank, fee, Blank, Blank, psp,
      Blank, Blank, type, status>>

\* the header row: "Type" and "Status" are literal text in the type and status columns
HeaderRow ==
    Row(PyStr(<<76>>), PyStr(<<66>>), PyStr(<<65>>), PyStr(<<67>>), PyStr(<<65>>), PyStr(<<70>>),
        PyStr(<<80>>), PyStr(<<84, 121, 112, 101>>), PyStr(<<83, 116, 97, 116, 117, 115>>))

BlankRow == Row(Blank, Blank, Blank, Blank, Blank, Blank, Blank, Blank, Blank)

\* the title and legend rows above the data block, the header row last
Legend == [i \in 1..(HEADER_ROW + 1) |-> IF i = HEADER_ROW + 1 THEN HeaderRow ELSE BlankRow]

\* None, 5, "Purchase", " refund ", "=SUM(A1:A5)"
TypeCells ==
    {None, PyInt(5), PyStr(<<80, 117, 114, 99, 104, 97, 115, 101>>),
     PyStr(<<32, 114, 101, 102, 117, 110, 100, 32>>),
     PyStr(<<61, 83, 85, 77, 40, 65, 49, 58, 65, 53, 41>>)}

\* None, 1, 1.5, datetime(2024, 1, 1), "PAID", "=A1+B2", " Success "
StatusCells ==
    {None, PyInt(1), FloatLiteral(<<49, 46, 53>>), PyDateTime(2024, 1, 1, 0, 0, 0, 0),
     PyStr(<<80, 65, 73, 68>>),
     PyStr(<<61, 65, 49, 43, 66, 50>>), PyStr(<<32, 83, 117, 99, 99, 101, 115, 115, 32>>)}

\* a "Purchase" "PAID" row whose fee cell holds the int 2^1024
OverflowRow ==
    Row(PyStr(<<77, 49>>), None, PyStr(<<65>>), PyStr(<<69, 85, 82>>),
        PyStr(<<49, 50, 44, 53, 48>>), PyLong(FALSE, BnShl(<<1>>, 1024)), None,
        PyStr(<<80, 117, 114, 99, 104, 97, 115, 101>>), PyStr(<<80, 65, 73, 68>>))

\* acquirer "A", merchant "M1", a brand cell holding time(12, 30), currency "EUR",
\* amount "12,50", fee 1, no psp fee cell; the row whose fee is 2^1024; and a "Purchase"
\* row whose status is the Greek capitals of "odos", an accent on the second "o"
ExtractRows ==
    {Row(PyStr(<<77, 49>>), PyTime(12, 30, 0, 0), PyStr(<<65>>), PyStr(<<69, 85, 82>>),
         PyStr(<<49, 50, 44, 53, 48>>), PyInt(1), None, ty, st) :
        ty \in TypeCells, st \in StatusCells}
    \cup {OverflowRow,
          Row(PyStr(<<77, 49>>), None, PyStr(<<65>>), PyStr(<<69, 85, 82>>),
               PyStr(<<49, 50, 44, 53, 48>>), PyInt(1), None,
               PyStr(<<80, 117, 114, 99, 104, 97, 115, 101>>),
               PyStr(<<927, 916, 908, 931>>))}

ExtractInit ==
    /\ ServiceIdle
    /\ \E rows \in SeqsUpTo(ExtractRows, MaxSheetRows) :
            call = [ws |-> Legend \o rows, fn |-> "load_xlsx_data"]
    /\ result = Idle

ApplyLoadXlsxData ==
    /\ call.fn = "load_xlsx_data" /\ result = Idle
    /\ result' = load_xlsx_data(call.ws)
    /\ UNCHANGED <<DATA_STORE, response, everLoaded, call>>

ExtractNext == ApplyLoadXlsxData

ExtractSpec == ExtractInit /\ [][ExtractNext]_vars

ExtractDone == call.fn = "load_xlsx_data" /\ result # Idle

IsLiteralText(cell) == cell.t = "str" /\ ~startswith(cell.s, <<61>>)

\* the dataset is exactly the rows of the data block that Survives accepts, in source
\* order, each with type and status lowercased and trimmed
DatasetIsSurvivors(ws, rows, Survives(_)) ==
    LET kept == {i \in (HEADER_ROW + 2)..Len(ws) : Survives(ws[i])}
        before(i) == Cardinality({j \in kept : j < i})
    IN  /\ Len(rows) = Cardinality(kept)
        /\ \A i \in kept :
            LET rec == rows[before(i) + 1]
                ty == Cell(ws[i], "type")
                st == Cell(ws[i], "status")
            IN  /\ rec.type = strip(lower(ty.s))
                /\ rec.status = strip(lower(str(st)))

\* C5 as stated: in the dataset load_xlsx_data returns, a record exists exactly for the
\* rows whose Type and Status cells are both present and both literal text not beginning
\* with '='; the dataset is those rows in source order with type and status lowercased
\* and trimmed.
C5_TypeAndStatusLiteralText ==
    (ExtractDone /\ result.ok) =>
        DatasetIsSurvivors(call.ws, result.df.rows,
            LAMBDA row : IsLiteralText(Cell(row, "type")) /\ IsLiteralText(Cell(row, "status")))

\* C5 amended: in the dataset load_xlsx_data returns, a record exists exactly for the
\* rows of the data block whose Type cell is literal text not beginning with '=' and
\* whose Status cell is present; a Status that is not text (a number, a date) or is text
\* beginning with '=' is kept in its string form; the dataset is those rows in source
\* order with type and status lowercased and trimmed.
C5_TypeLiteralTextStatusPresent ==
    (ExtractDone /\ result.ok) =>
        DatasetIsSurvivors(call.ws, result.df.rows,
            LAMBDA row : IsLiteralText(Cell(row, "type")) /\ Cell(row, "status").t # "None")

\* a dataset that kept a row with a numeric Status and a row with a formula Status
C5_Witness ==
    /\ ExtractDone /\ result.ok
    /\ Len(result.df.rows) = 2
    /\ result.df.rows[1].status = <<49>>
    /\ result.df.rows[2].status = <<61, 97, 49, 43, 98, 50>>
    /\ result.df.rows[2].type = refund

(***************************************************************************)
(* filter_by_operation_type on its own, on the frames load_xlsx_data makes. *)
(***************************************************************************)
FilterRecord(type, status) ==
    [legal_name |-> <<77, 49>>, brand_name |-> <<>>, acquirer |-> <<65>>,
     currency |-> <<69, 85, 82>>, amount |-> FloatLiteral(<<48, 46, 48, 48, 52>>),
     fee |-> Zero(FALSE), psp_buy_fee |-> Zero(FALSE),
     type |-> type, status |-> status]

\* the four business types and "other"; the four business statuses and "pending"
FilterRecords ==
    {FilterRecord(ty, st) :
        ty \in {purchase, refund, chargeback, payout, <<111, 116, 104, 101, 114>>},
        st \in {paid, refunded, chargedback, success, <<112, 101, 110, 100, 105, 110, 103>>}}

FilterInit ==
    /\ ServiceIdle
    /\ \E rows \in SeqsUpTo(FilterRecords, MaxFilterRows), op_type \in {1, 2, 3, 4, 7} :
            call = [df |-> DataFrame(rows), op_type |-> op_type, fn |-> "filter_by_operation_type"]
    /\ result = Idle

ApplyFilter ==
    /\ call.fn = "filter_by_operation_type" /\ result = Idle
    /\ result' = filter_by_operation_type(call.df, call.op_type)
    /\ UNCHANGED <<DATA_STORE, response, everLoaded, call>>

FilterNext == ApplyFilter

FilterSpec == FilterInit /\ [][FilterNext]_vars

FilterDone == call.fn = "filter_by_operation_type" /\ result # Idle

\* the (type, status) table
InTable(op_type, r) ==
    \/ op_type = 1 /\ r.type = purchase /\ r.status \in {paid, refunded, chargedback}
    \/ op_type = 2 /\ r.type = refund /\ r.status = success
    \/ op_type = 3 /\ r.type = chargeback /\ r.status = success
    \/ op_type = 4 /\ r.type = payout /\ r.status = success

\* C8 as stated: for every dataset and every operation code 1..4 the filter returns
\* exactly the records the table admits, in their dataset order.
C8_FilterMatchesTable ==
    (FilterDone /\ call.op_type \in 1..4) =>
        /\ result.ok
        /\ result.df.rows = SelectSeq(call.df.rows, LAMBDA r : InTable(call.op_type, r))

(***************************************************************************)
(* The request handlers.  Each is an `async def` without a single await:   *)
(* once the event loop starts one it runs to its return or to the          *)
(* exception that ends it, so a handler is one atomic step and the steps   *)
(* of concurrent requests interleave in any order.  A handler maps the     *)
(* slot and its inputs to [store, response]; an HTTPException gives its    *)
(* status code and detail, any other exception a 500 naming it.            *)
(***************************************************************************)
HTTPException(status_code, detail) == [status |-> status_code, detail |-> detail]

Unhandled(e) == [error |-> e, status |-> 500]

Ok(body) == [status |-> 200, body |-> body]

\* df.groupby(["type", "status"]).size().reset_index(name="count").to_dict("records")
type_status_breakdown(rows) ==
    LET keys == SortKeys({<<rows[i].type, rows[i].status>> : i \in 1..Len(rows)})
    IN  [i \in 1..Len(keys) |->
            [type |-> keys[i][1], status |-> keys[i][2],
             count |-> Len(SelectSeq(rows, LAMBDA r : <<r.type, r.status>> = keys[i]))]]

\* "tab.xlsx"
TAB_XLSX == <<116, 97, 98, 46, 120, 108, 115, 120>>

\* the upload publishing the frame under the default file's name
PublishAndReport_default_name(df, name) ==
    [response |-> IF ~df.columns THEN Unhandled("KeyError")
                  ELSE Ok([success |-> TRUE, filename |-> name,
                           type_status_breakdown |-> type_status_breakdown(df.rows),
                           total_rows |-> Len(df.rows)]),
     store |-> [df |-> df, filename |-> PyStr(TAB_XLSX)]]

\* publish the parsed frame under its name, then compute the statistics
\* (groupby on a frame without columns raises KeyError, after the slot was set)
PublishAndReport(df, name) ==
    [response |-> IF ~df.columns THEN Unhandled("KeyError")
                  ELSE Ok([success |-> TRUE, filename |-> name,
                           type_status_breakdown |-> type_status_breakdown(df.rows),
                           total_rows |-> Len(df.rows)]),
     store |-> [df |-> df, filename |-> PyStr(name)]]

\* what follows the call of load_xlsx_data: its exception leaves the handler, its frame is
\* published
PublishLoaded(store, loaded, name) ==
    IF ~loaded.ok THEN [response |-> Unhandled(loaded.error), store |-> store]
    ELSE PublishAndReport(loaded.df, name)

\* the part both load handlers share: parse, then publish and report; a workbook
\* that cannot be opened (zipfile.BadZipFile) and a cell that cannot be parsed raise
\* before the slot is touched
LoadAndPublish(store, content, name) ==
    IF content.t = "corrupt"
    THEN [response |-> Unhandled("BadZipFile"), store |-> store]
    ELSE PublishLoaded(store, load_xlsx_data(content.ws), name)

\* ".xlsx"
XLSX == <<46, 120, 108, 115, 120>>

upload_file(store, filename, content) ==
    IF ~endswith(filename, XLSX)
    THEN [response |-> HTTPException(400, "Only .xlsx files are supported"),
          store |-> store]
    ELSE LoadAndPublish(store, content, filename)

\* disk: whether the default path exists, and what it holds
load_default_file(store, disk) ==
    IF ~disk.exists
    THEN [response |-> HTTPException(404, "Default file not found"), store |-> store]
    ELSE LoadAndPublish(store, disk.content, TAB_XLSX)

get_status(store) ==
    [response |-> Ok([filename |-> store.filename,
                      loaded |-> store.df # None,
                      row_count |-> IF store.df # None THEN Len(store.df.rows) ELSE 0]),
     store |-> store]

\* json.dumps(allow_nan=False), with which JSONResponse renders a body, raises ValueError
\* for a float that is inf or nan: TRUE when the money fields of all the nodes pass
JSONCompliant(nodes, fields) ==
    \A i \in 1..Len(nodes) : \A f \in fields : nodes[i][f].c = "finite"

\* every number of a pivot tree passes (the zeros of the empty tree are ints)
PivotCompliant(tree, view_type) ==
    \/ tree.groups = <<>>
    \/ /\ JSONCompliant(<<tree.totals>>, {"amount", "fee", "psp_buy_fee"})
       /\ \A i \in 1..Len(tree.groups) :
            LET below == IF view_type = 1 THEN tree.groups[i].merchants
                         ELSE tree.groups[i].acquirers
            IN  /\ JSONCompliant(<<tree.groups[i].subtotals>>, {"amount", "fee", "psp_buy_fee"})
                /\ \A j \in 1..Len(below) :
                    /\ JSONCompliant(<<below[j].subtotals>>, {"amount", "fee", "psp_buy_fee"})
                    /\ JSONCompliant(below[j].currencies, {"amount", "fee", "psp_buy_fee"})

\* the currency filter, the view, the response
PivotResponse(filtered, operation_type, view_type, currency) ==
    IF ~filtered.ok THEN Unhandled(filtered.error)
    ELSE LET frame == IF Truthy(currency)
                      THEN Select(filtered.df, SelectSeq(filtered.df.rows,
                                LAMBDA r : r.currency = upper(currency.s)))
                      ELSE filtered.df
             pivot == IF view_type = 1 THEN build_pivot_by_acquirer(frame)
                      ELSE build_pivot_by_merchant(frame)
         IN  IF ~PivotCompliant(pivot, view_type) THEN Unhandled("ValueError")
             ELSE Ok([data |-> pivot,
                      view_type |-> view_type,
                      operation_type |-> operation_type,
                      currency_filter |-> currency])

get_pivot(store, operation_type, view_type, currency) ==
    IF store.df = None
    THEN [response |-> HTTPException(400, "No data loaded. Upload a file first."),
          store |-> store]
    ELSE [response |-> PivotResponse(filter_by_operation_type(store.df, operation_type),
                                     operation_type, view_type, currency),
          store |-> store]

get_currencies(store) ==
    IF store.df = None
    THEN [response |-> HTTPException(400, "No data loaded"), store |-> store]
    ELSE IF ~store.df.columns THEN [response |-> Unhandled("KeyError"), store |-> store]
    ELSE [response |-> Ok([currencies |-> Ascending(Column(store.df.rows, "currency"))]),
          store |-> store]

operation_names ==
    <<"Purchase (paid/refunded/chargedback)", "Refund (success)", "Chargeback (success)",
      "Payout (success)">>

\* one entry of the summaries list
SummaryEntry(op_type, rows) ==
    [name |-> operation_names[op_type],
     count |-> Len(rows),
     operation_type |-> op_type,
     total_amount |-> np_round2(series_sum(Column(rows, "amount"))),
     total_fee |-> np_round2(series_sum(Column(rows, "fee"))),
     total_psp_buy_fee |-> np_round2(series_sum(Column(rows, "psp_buy_fee")))]

\* the loop over [1, 2, 3, 4]: the first filter call that raises ends the handler
SummaryResponse(filtered) ==
    IF \E op_type \in 1..4 : ~filtered[op_type].ok
    THEN Unhandled(filtered[CHOOSE op_type \in 1..4 :
                        /\ ~filtered[op_type].ok
                        /\ \A o \in 1..(op_type - 1) : filtered[o].ok].error)
    ELSE LET summaries == [op_type \in 1..4 |->
                                SummaryEntry(op_type, filtered[op_type].df.rows)]
         IN  IF ~JSONCompliant(summaries, {"total_amount", "total_fee", "total_psp_buy_fee"})
             THEN Unhandled("ValueError")
             ELSE Ok([summaries |-> summaries])

get_summary(store) ==
    IF store.df = None
    THEN [response |-> HTTPException(400, "No data loaded"), store |-> store]
    ELSE [response |-> SummaryResponse(
                [op_type \in 1..4 |-> filter_by_operation_type(store.df, op_type)]),
          store |-> store]

(***************************************************************************)
(* The service: requests arriving in any order.                            *)
(***************************************************************************)
\* "M2"/"B"/"USD" purchase paid, amount "0,004", fee 0.006, psp fee 1;
\* "M1"/"A"/"EUR" refund success, amount 0.004, fee "inf"; a formula trailer row
UploadRows ==
    {Row(PyStr(<<77, 50>>), None, PyStr(<<66>>), PyStr(<<85, 83, 68>>),
         PyStr(<<48, 44, 48, 48, 52>>), FloatLiteral(<<48, 46, 48, 48, 54>>), PyInt(1),
         PyStr(<<80, 117, 114, 99, 104, 97, 115, 101>>), PyStr(<<80, 65, 73, 68>>)),
     Row(PyStr(<<77, 49>>), None, PyStr(<<65>>), PyStr(<<69, 85, 82>>),
         FloatLiteral(<<48, 46, 48, 48, 52>>), PyStr(<<105, 110, 102>>), None,
         PyStr(<<32, 114, 101, 102, 117, 110, 100, 32>>),
         PyStr(<<32, 83, 117, 99, 99, 101, 115, 115, 32>>)),
     Row(None, None, None, None, PyStr(<<61, 65, 49, 43, 66, 50>>), None, None,
         PyStr(<<61, 83, 85, 77, 40, 65, 49, 58, 65, 53, 41>>), PyStr(<<80, 65, 73, 68>>))}

Workbook(rows) == [t |-> "workbook", ws |-> Legend \o rows]

Corrupt == [t |-> "corrupt"]

UploadContents == {Corrupt} \cup {Workbook(rows) : rows \in SeqsUpTo(UploadRows, MaxUploadRows)}

\* "a.xlsx", "b.csv"
UploadNames == {<<97, 46, 120, 108, 115, 120>>, <<98, 46, 99, 115, 118>>}

\* what the default path may hold: nothing, an unreadable file, a sheet with no data
\* rows, a sheet with one data row, a sheet whose one data row holds an int too large
\* for a float
Disks ==
    {[content |-> Corrupt, exists |-> FALSE], [content |-> Corrupt, exists |-> TRUE],
     [content |-> Workbook(<<OverflowRow>>), exists |-> TRUE]}
    \cup {[content |-> Workbook(rows), exists |-> TRUE] : rows \in SeqsUpTo(UploadRows, 1)}

OperationCodes == {1, 2, 3, 4, 7}

ViewCodes == {1, 2, 3}

\* no filter, "usd", "\u00df" (sharp s)
CurrencyFilters == {None, PyStr(<<117, 115, 100>>), PyStr(<<223>>)}

Init ==
    /\ DATA_STORE = [df |-> None, filename |-> None]
    /\ response = Idle
    /\ everLoaded = FALSE
    /\ call = Idle
    /\ result = Idle

\* the request and what the client gets back for it
Response(req, out) == [res |-> out.response, req |-> req]

\* some load has returned success
Loaded(req, out) == req.op \in {"upload", "load_default"} /\ out.response.status = 200

Upload ==
    \E filename \in UploadNames, content \in UploadContents :
        \E req \in {[filename |-> filename, content |-> content, op |-> "upload"]},
           out \in {upload_file(DATA_STORE, filename, content)} :
            /\ DATA_STORE' = out.store
            /\ response' = Response(req, out)
            /\ everLoaded' = (everLoaded \/ Loaded(req, out))
            /\ UNCHANGED <<call, result>>

LoadDefault ==
    \E disk \in Disks :
        \E req \in {[filename |-> TAB_XLSX, content |-> disk.content,
                      exists |-> disk.exists, op |-> "load_default"]},
           out \in {load_default_file(DATA_STORE, disk)} :
            /\ DATA_STORE' = out.store
            /\ response' = Response(req, out)
            /\ everLoaded' = (everLoaded \/ Loaded(req, out))
            /\ UNCHANGED <<call, result>>

Status ==
    \E req \in {[op |-> "status"]}, out \in {get_status(DATA_STORE)} :
        /\ DATA_STORE' = out.store
        /\ response' = Response(req, out)
        /\ UNCHANGED <<everLoaded, call, result>>

Pivot ==
    \E operation_type \in OperationCodes, view_type \in ViewCodes, currency \in CurrencyFilters :
        \E req \in {[currency |-> currency, view_type |-> view_type,
                      operation_type |-> operation_type, op |-> "pivot"]},
           out \in {get_pivot(DATA_STORE, operation_type, view_type, currency)} :
            /\ DATA_STORE' = out.store
            /\ response' = Response(req, out)
            /\ UNCHANGED <<everLoaded, call, result>>

Currencies ==
    \E req \in {[op |-> "currencies"]}, out \in {get_currencies(DATA_STORE)} :
        /\ DATA_STORE' = out.store
        /\ response' = Response(req, out)
        /\ UNCHANGED <<everLoaded, call, result>>

Summary ==
    \E req \in {[op |-> "summary"]}, out \in {get_summary(DATA_STORE)} :
        /\ DATA_STORE' = out.store
        /\ response' = Response(req, out)
        /\ UNCHANGED <<everLoaded, call, result>>

Next == Upload \/ LoadDefault \/ Status \/ Pivot \/ Currencies \/ Summary

Spec == Init /\ [][Next]_vars

(***************************************************************************)
(* Properties of the service.                                              *)
(***************************************************************************)
IsLoad(req) == req.op \in {"upload", "load_default"}

IsQuery(req) == req.op \in {"pivot", "currencies", "summary"}

\* the HTTP 400 a query gives when the slot holds no dataset
NoDataLoadedError(r) ==
    r.res.status = 400 /\ r.res.detail \in {"No data loaded", "No data loaded. Upload a file first."}

\* the records of the slot's dataset a pivot request selects
Matching(store, req) ==
    SelectSeq(store.df.rows,
              LAMBDA r : /\ InTable(req.operation_type, r)
                         /\ (Truthy(req.currency) => r.currency = upper(req.currency.s)))

\* C1 as stated: a load call that ends in an error leaves the slot (dataset and source
\* name) exactly as it was before the call.
C1_FailedLoadLeavesSlot ==
    [][(response' # Idle /\ IsLoad(response'.req) /\ response'.res.status # 200)
            => DATA_STORE' = DATA_STORE]_vars

\* C4 as stated: with a dataset loaded, also one of zero rows, summary returns the four
\* entries for operations 1..4 in order (all zero for no records) and pivot for an
\* operation 1..4 with zero matching records returns no groups and a zero grand total.
C4_EmptyInputNeverAnError ==
    (response # Idle /\ DATA_STORE.df # None) =>
        /\ response.req.op = "summary" =>
            /\ response.res.status = 200
            /\ DOMAIN response.res.body.summaries = 1..4
            /\ \A i \in 1..4 :
                /\ response.res.body.summaries[i].operation_type = i
                /\ DATA_STORE.df.rows = <<>> =>
                    /\ response.res.body.summaries[i].count = 0
                    /\ response.res.body.summaries[i].total_amount = Zero(FALSE)
                    /\ response.res.body.summaries[i].total_fee = Zero(FALSE)
                    /\ response.res.body.summaries[i].total_psp_buy_fee = Zero(FALSE)
        /\ (/\ response.req.op = "pivot"
            /\ response.req.operation_type \in 1..4
            /\ Matching(DATA_STORE, response.req) = <<>>) =>
                /\ response.res.status = 200
                /\ response.res.body.data = EmptyPivot

\* C7 as stated: with a dataset loaded, pivot returns a tree only for an operation code
\* in 1..4 and a view code in {1, 2}; any other operation or view code fails with an
\* error and no partial result.
C7_PivotValidatesOperationAndView ==
    (response # Idle /\ response.req.op = "pivot" /\ DATA_STORE.df # None) =>
        /\ response.res.status = 200 =>
            (response.req.operation_type \in 1..4 /\ response.req.view_type \in {1, 2})
        /\ (response.req.operation_type \notin 1..4 \/ response.req.view_type \notin {1, 2}) =>
            (response.res.status # 200 /\ "body" \notin DOMAIN response.res)

\* C7, state part: a pivot request succeeds only for operation types 1..4, any other
\* type ends in ValueError with no body; view 1 gives the acquirer-first tree, any
\* other view the merchant-first tree
C7_OperationValidated ==
    (response # Idle /\ response.req.op = "pivot" /\ DATA_STORE.df # None) =>
        /\ response.res.status = 200 => response.req.operation_type \in 1..4
        /\ response.req.operation_type \notin 1..4 =>
            /\ response.res.status = 500 /\ response.res.error = "ValueError"
            /\ "body" \notin DOMAIN response.res
        /\ response.res.status = 200 =>
            \A i \in 1..Len(response.res.body.data.groups) :
                IF response.req.view_type = 1
                THEN "merchants" \in DOMAIN response.res.body.data.groups[i]
                ELSE "acquirers" \in DOMAIN response.res.body.data.groups[i]

\* C7, step part: a pivot request leaves the dataset slot as it was
C7_SlotUntouched == (response' # Idle /\ response'.req.op = "pivot") => DATA_STORE' = DATA_STORE

\* C7 amended: with a dataset loaded, pivot returns a tree only for an operation code in
\* 1..4; an operation code outside 1..4 fails with ValueError and no partial result; the
\* view code is not validated: view 1 gives the by-acquirer tree and every other view
\* code the by-merchant tree; no pivot call changes the slot.
C7_PivotValidatesOperationOnly == [](C7_OperationValidated) /\ [][C7_SlotUntouched]_vars

\* a pivot with view code 3 answered with a by-merchant tree
C7_Witness ==
    /\ response # Idle /\ response.req.op = "pivot" /\ DATA_STORE.df # None
    /\ response.req.view_type = 3
    /\ response.res.status = 200
    /\ Len(response.res.body.data.groups) > 0
    /\ "acquirers" \in DOMAIN response.res.body.data.groups[1]

\* C9, state part: what a status or summary response reports is computed from
\* the one dataset the slot holds
C9_ResponsesFromOneDataset ==
    /\ DATA_STORE.df = None <=> DATA_STORE.filename = None
    /\ response # Idle =>
        /\ response.req.op = "status" =>
            /\ response.res.body.loaded = (DATA_STORE.df # None)
            /\ response.res.body.filename = DATA_STORE.filename
            /\ response.res.body.row_count =
                    (IF DATA_STORE.df = None THEN 0 ELSE Len(DATA_STORE.df.rows))
        /\ (response.req.op = "pivot" /\ response.res.status = 200) =>
            response.res.body.data.totals.count
                = Len(SelectSeq(Matching(DATA_STORE, response.req), LAMBDA r : ~isnan(r.amount)))
        /\ (response.req.op = "summary" /\ response.res.status = 200) =>
            \A i \in 1..4 :
                response.res.body.summaries[i].count
                    = Len(SelectSeq(DATA_STORE.df.rows, LAMBDA r : InTable(i, r)))

\* the slot holds the frame a load returned and the name it was loaded under
SlotHolds(store, loaded, name) ==
    loaded.ok /\ store = [df |-> loaded.df, filename |-> PyStr(name)]

\* C9, step part: the slot's frame and name change together, to one load's values
C9_SlotFromOneLoad ==
    DATA_STORE' # DATA_STORE =>
        /\ IsLoad(response'.req)
        /\ response'.req.content.t = "workbook"
        /\ SlotHolds(DATA_STORE', load_xlsx_data(response'.req.content.ws),
                     response'.req.filename)

\* C9: under any interleaving of load and query requests the dataset and the source name
\* in the slot come from the same load, status reports the name and the row count of
\* that load, and each pivot or summary response is computed from the one dataset
\* in the slot.
C9_NoTornState == [](C9_ResponsesFromOneDataset) /\ [][C9_SlotFromOneLoad]_vars

\* status answered with the default file, one data row, in the slot, and reporting it
C9_Witness ==
    /\ response # Idle /\ response.req.op = "status"
    /\ everLoaded
    /\ response.res.body.loaded
    /\ response.res.body.filename = PyStr(TAB_XLSX)
    /\ response.res.body.row_count = 1

\* C10 as stated: a query fails with the no-data-loaded error exactly when no load has
\* yet returned success, and until then status reports loaded=false and row_count 0.
C10_NoDataErrorUntilFirstSuccess ==
    response # Idle =>
        /\ IsQuery(response.req) => (NoDataLoadedError(response) <=> ~everLoaded)
        /\ (response.req.op = "status" /\ ~everLoaded) =>
            (~response.res.body.loaded /\ response.res.body.row_count = 0)

====
